---- MODULE Spec2Model ----
(***************************************************************************)
(* A model of the SynthesisTalk backend core (src/backend/llm_client.py):  *)
(* the ToolResult dataclass, the ToolManager registry and invoker, the     *)
(* ConversationManager, the ReasoningEngine prompt builders and the        *)
(* SynthesisTalkLLM.chat orchestration loop.                               *)
(*                                                                         *)
(* Python values are tagged records: the field t names the Python type,    *)
(* so that two values of different types are never equal.  An exception    *)
(* is a record [type, msg]; str(e) is its msg.  A call that can raise      *)
(* yields an outcome record [raised, exc, value, ...].                     *)
(***************************************************************************)
EXTENDS Integers, Sequences, FiniteSets, TLC

VARIABLES
    messages,      \* ConversationManager.messages of the instance
    max_history,   \* ConversationManager.max_history of the instance
    context,       \* ConversationManager.context, in insertion order
    tools,         \* ToolManager.tools, in insertion order
    notes_file,    \* research_notes.json on disk
    now,           \* what datetime.now() reads
    pc,            \* where the instance is inside chat()
    frame,         \* the local variables of the running chat() call
    model_calls,   \* client.chat.completions.create calls of the last chat()
    dispatched,    \* execute_tool calls of the last chat()
    result,        \* what the last chat() returned
    pre,           \* the instance's state when the last chat() was entered
    caught,        \* the exception the last chat() caught, and where it arose
    last_exec,     \* the last direct execute_tool call and its outcome
    ops,           \* number of top-level calls made so far
    cm,            \* a stand-alone ConversationManager (SpecConv)
    cm_appended,   \* everything add_message was given on cm, in order
    savers,        \* the concurrent _save_note calls (SpecNotes)
    reg_log,       \* every register_tool call made on tools, in order (SpecRegistry)
    sessions,      \* fastapi_backend.sessions: session id -> instance (SpecSessions)
    llm_instance,  \* fastapi_backend.llm_instance, the shared instance
    uploads,       \* the file names present in the uploads directory
    next_inst,     \* ordinal of the next SynthesisTalkLLM to be constructed
    last_req       \* the last HTTP request served and its response

httpVars == <<sessions, llm_instance, uploads, next_inst, last_req>>

vars == <<messages, max_history, context, tools, notes_file, now, pc, frame,
          model_calls, dispatched, result, pre, caught, last_exec, ops, cm,
          cm_appended, savers, reg_log, httpVars>>

----------------------------------------------------------------------------
(* Bounds of the model.                                                    *)

MaxOps == 1          \* top-level calls made on the instance per behaviour
MaxToolCalls == 2    \* tool calls in one model response
MaxClock == 1        \* datetime.now() readings 0..MaxClock
MaxBound == 3        \* retention bounds 0..MaxBound given to ConversationManager
MaxAppends == 5      \* add_message calls on the stand-alone ConversationManager
MaxRegs == 3         \* register_tool calls after the default registrations
MaxRequests == 3     \* HTTP requests served per behaviour

(* ConversationManager.__init__(max_history=20).                           *)
DefaultMaxHistory == 20

----------------------------------------------------------------------------
(* Python values.                                                          *)

None == [t |-> "None"]
Str(s) == [t |-> "str", s |-> s]

Min(a, b) == IF a < b THEN a ELSE b
Max(a, b) == IF a > b THEN a ELSE b

(* seq[-n:] for n >= 0.  Python reads -0 as 0, so seq[-0:] is all of seq.  *)
LastSlice(seq, n) ==
    IF n = 0 \/ n >= Len(seq) THEN seq
    ELSE SubSeq(seq, Len(seq) - n + 1, Len(seq))

(* seq[:n] for any integer n.                                              *)
FirstSlice(seq, n) ==
    IF n >= 0 THEN SubSeq(seq, 1, Min(n, Len(seq)))
    ELSE SubSeq(seq, 1, Max(Len(seq) + n, 0))

(* str(x): a string is itself, anything else is rendered.                  *)
PyStr(x) == IF x.t = "str" THEN x ELSE [t |-> "rendered", of |-> x]

NoExc == [type |-> "", msg |-> ""]
Exc(type, msg) == [type |-> type, msg |-> msg]
Return(v) == [raised |-> FALSE, exc |-> NoExc, value |-> v]
Raise(e) == [raised |-> TRUE, exc |-> e, value |-> None]

----------------------------------------------------------------------------
(* ToolResult: the dataclass's generated __init__.  success and data have  *)
(* no default, error and metadata default to None.  given is the set of    *)
(* keyword arguments the call site passes.                                 *)

ToolResult(given, success, data, error, metadata) ==
    IF "success" \notin given
    THEN Raise(Exc("TypeError", "missing 1 required positional argument: 'success'"))
    ELSE IF "data" \notin given
    THEN Raise(Exc("TypeError", "missing 1 required positional argument: 'data'"))
    ELSE Return([success |-> success,
                 data |-> data,
                 error |-> IF "error" \in given THEN error ELSE None,
                 metadata |-> IF "metadata" \in given THEN metadata ELSE None])

----------------------------------------------------------------------------
(* The file system the tools read.  A path is looked up in a fixed table:  *)
(* whether it exists, what os.path.splitext gives, and what reading it     *)
(* yields.                                                                 *)

NotesTxt ==
    [paragraphs |-> <<"p1", "p2", "p3", "p4">>,
     sentences |-> <<[text |-> "s1", len |-> 60], [text |-> "s2", len |-> 10],
                     [text |-> "s3", len |-> 199], [text |-> "s4", len |-> 200]>>,
     length |-> 480]

PaperPdf ==
    [paragraphs |-> <<"q1", "q2">>,
     sentences |-> <<[text |-> "r1", len |-> 51]>>,
     length |-> 90]

FilePaths ==
    {"uploads/notes.txt", "uploads/PAPER.PDF", "uploads/missing.txt",
     "uploads/image.png", "uploads/broken.pdf"}

(* os.path.exists(file_path) *)
PathExists(path) == path \in (FilePaths \ {"uploads/missing.txt"})

(* os.path.splitext(file_path)[1] *)
SplitExt(path) ==
    CASE path = "uploads/notes.txt" -> ".txt"
      [] path = "uploads/PAPER.PDF" -> ".PDF"
      [] path = "uploads/missing.txt" -> ".txt"
      [] path = "uploads/image.png" -> ".png"
      [] path = "uploads/broken.pdf" -> ".pdf"
      [] OTHER -> ""

(* str.lower() on the extensions above *)
Lower(ext) == IF ext = ".PDF" THEN ".pdf" ELSE ext

(* Reading the file: PyPDF2 raises on a damaged PDF. *)
ReadFile(path) ==
    CASE path = "uploads/notes.txt" -> Return(NotesTxt)
      [] path = "uploads/PAPER.PDF" -> Return(PaperPdf)
      [] path = "uploads/broken.pdf" -> Raise(Exc("PdfReadError", "EOF marker not found"))
      [] OTHER -> Raise(Exc("FileNotFoundError", "No such file or directory"))

----------------------------------------------------------------------------
(* Keyword arguments.  A parsed argument object is None (JSON null) or a   *)
(* dict: the set of keys present and, for each possible key, its value     *)
(* (the default below when the key is absent).                             *)

ArgDefaults ==
    [title |-> "", content |-> "", tags |-> <<>>, file_path |-> "",
     analysis_type |-> "", query |-> "", num_results |-> 0, concept |-> "",
     level |-> ""]

Dict(keys, kv) == [t |-> "dict", keys |-> keys, kv |-> kv]

(* The parameters of each handler: those without and with a default. *)
Signature(fn) ==
    CASE fn = "_analyze_document" ->
            [required |-> {"file_path"}, optional |-> {"analysis_type"}, any |-> FALSE]
      [] fn = "_web_search" ->
            [required |-> {"query"}, optional |-> {"num_results"}, any |-> FALSE]
      [] fn = "_save_note" ->
            [required |-> {"title", "content"}, optional |-> {"tags"}, any |-> FALSE]
      [] fn = "_explain_concept" ->
            [required |-> {"concept"}, optional |-> {"level"}, any |-> FALSE]
      [] OTHER -> [required |-> {}, optional |-> {}, any |-> TRUE]

\* Calling func with the arguments as keywords: what Python checks before the body runs.
Bind(fn, arguments) ==
    LET sig == Signature(fn) IN
    IF arguments.t # "dict"
    THEN Raise(Exc("TypeError", "argument after ** must be a mapping"))
    ELSE IF ~sig.any /\ ~(arguments.keys \subseteq (sig.required \cup sig.optional))
    THEN Raise(Exc("TypeError", "got an unexpected keyword argument"))
    ELSE IF ~(sig.required \subseteq arguments.keys)
    THEN Raise(Exc("TypeError", "missing required positional argument"))
    ELSE Return(None)

(* The handler's try/except: every handler ends with                       *)
(*     except Exception as e: return ToolResult(success=False, error=str(e)) *)
HandlerExcept(body) ==
    IF body.raised
    THEN ToolResult({"success", "error"}, FALSE, None, Str(body.exc.msg), None)
    ELSE body

----------------------------------------------------------------------------
(* The four default handlers and a handler registered by the embedding     *)
(* program.                                                                *)

RECURSIVE KeySentences(_)
KeySentences(sentences) ==
    IF sentences = <<>> THEN <<>>
    ELSE LET s == Head(sentences) IN
         IF s.len > 50 /\ s.len < 200
         THEN <<s.text>> \o KeySentences(Tail(sentences))
         ELSE KeySentences(Tail(sentences))

_analyze_document_body(file_path, analysis_type) ==
    IF ~PathExists(file_path)
    THEN ToolResult({"success", "error"}, FALSE, None,
                    [t |-> "str", s |-> "File not found: {file_path}", path |-> file_path],
                    None)
    ELSE LET file_ext == Lower(SplitExt(file_path)) IN
         IF file_ext \notin {".pdf", ".txt"}
         THEN ToolResult({"success", "error"}, FALSE, None,
                         [t |-> "str", s |-> "Unsupported file type: {file_ext}", ext |-> file_ext],
                         None)
         ELSE LET read == ReadFile(file_path) IN
              IF read.raised THEN read
              ELSE LET content == read.value
                       analysis ==
                           CASE analysis_type = "summary" ->
                                   [t |-> "analysis", kind |-> "summary",
                                    parts |-> FirstSlice(content.paragraphs, 3)]
                             [] analysis_type = "key_points" ->
                                   [t |-> "analysis", kind |-> "key_points",
                                    parts |-> FirstSlice(KeySentences(content.sentences), 5)]
                             [] OTHER ->
                                   [t |-> "analysis", kind |-> "detailed",
                                    parts |-> content.paragraphs]
                   IN ToolResult({"success", "data", "metadata"}, TRUE, analysis, None,
                                 [t |-> "dict", file_type |-> file_ext,
                                  content_length |-> content.length])

_analyze_document(kw, keys) ==
    HandlerExcept(_analyze_document_body(
        kw.file_path,
        IF "analysis_type" \in keys THEN kw.analysis_type ELSE "summary"))

MockResults(query) ==
    <<[title |-> "Search result for: {query}", url |-> "https://example.com",
       snippet |-> "This is a mock search result", query |-> query]>>

_web_search(kw, keys) ==
    LET num_results == IF "num_results" \in keys THEN kw.num_results ELSE 5 IN
    HandlerExcept(
        ToolResult({"success", "data", "metadata"}, TRUE,
                   [t |-> "list", items |-> FirstSlice(MockResults(kw.query), num_results)],
                   None,
                   [t |-> "dict", query |-> kw.query,
                    num_results |-> Len(MockResults(kw.query))]))

_explain_concept(kw, keys) ==
    LET level == IF "level" \in keys THEN kw.level ELSE "intermediate" IN
    HandlerExcept(
        ToolResult({"success", "data", "metadata"}, TRUE,
                   [t |-> "str", s |-> "Explain the concept of '{concept}' at a {level} level",
                    concept |-> kw.concept, level |-> level],
                   None,
                   [t |-> "dict", concept |-> kw.concept, level |-> level]))

(* research_notes.json: absent, a JSON array of notes, or not loadable.    *)
NotesAbsent == [state |-> "absent", notes |-> <<>>]
NotesCorrupt == [state |-> "corrupt", notes |-> <<>>]
NotesFile(notes) == [state |-> "ok", notes |-> notes]

(* SynthesisTalkLLM.export_research_notes, lines 519-529: the JSON array  *)
(* loaded from the file; the empty list when the file is absent or cannot  *)
(* be loaded.  A note holds strings and a list of strings only, which      *)
(* json.dump followed by json.load gives back unchanged.                   *)
export_research_notes(nf) == IF nf.state = "ok" THEN nf.notes ELSE <<>>

(* _save_note writing the new note alone, without the notes loaded. *)
_save_note_body_Overwrites(title, content, tags, nf, clock) ==
    LET note == [t |-> "dict", id |-> clock, title |-> title, content |-> content,
                 tags |-> tags, created_at |-> clock]
    IN IF nf.state = "corrupt"
       THEN [out |-> Raise(Exc("JSONDecodeError", "Expecting value")), notes_file |-> nf]
       ELSE [out |-> ToolResult({"success", "data"}, TRUE, note, None, None),
             notes_file |-> NotesFile(<<note>>)]

(* The body of _save_note's try: the note written and the file left.       *)
_save_note_body(title, content, tags, nf, clock) ==
    LET note == [t |-> "dict", id |-> clock, title |-> title, content |-> content,
                 tags |-> tags, created_at |-> clock]
    IN IF nf.state = "corrupt"
       THEN [out |-> Raise(Exc("JSONDecodeError", "Expecting value")), notes_file |-> nf]
       ELSE [out |-> ToolResult({"success", "data"}, TRUE, note, None, None),
             notes_file |-> NotesFile(Append(nf.notes, note))]

_save_note(kw, keys, nf, clock) ==
    LET tags == IF "tags" \in keys THEN kw.tags ELSE <<>>
        body == _save_note_body(kw.title, kw.content, tags, nf, clock)
    IN [out |-> HandlerExcept(body.out), notes_file |-> body.notes_file]

(* What a handler given to register_tool by the embedding program may do:  *)
(* return a success, return a well-formed failure, or raise.               *)
CustomBehaviours == {"ok", "fail", "raise"}

CustomHandler(behaviour) ==
    CASE behaviour = "ok" ->
            ToolResult({"success", "data"}, TRUE, Str("custom data"), None, None)
      [] behaviour = "fail" ->
            ToolResult({"success", "data", "error"}, FALSE, None, Str("custom failure"), None)
      [] OTHER -> Raise(Exc("RuntimeError", "custom handler failed"))

\* self.tools[name]['function'] called with the arguments as keywords
CallHandler(fn, arguments, nf, clock, behaviour) ==
    LET b == Bind(fn, arguments) IN
    IF b.raised THEN [out |-> b, notes_file |-> nf]
    ELSE CASE fn = "_analyze_document" ->
                 [out |-> _analyze_document(arguments.kv, arguments.keys), notes_file |-> nf]
           [] fn = "_web_search" ->
                 [out |-> _web_search(arguments.kv, arguments.keys), notes_file |-> nf]
           [] fn = "_save_note" ->
                 _save_note(arguments.kv, arguments.keys, nf, clock)
           [] fn = "_explain_concept" ->
                 [out |-> _explain_concept(arguments.kv, arguments.keys), notes_file |-> nf]
           [] OTHER ->
                 [out |-> CustomHandler(behaviour), notes_file |-> nf]

----------------------------------------------------------------------------
(* ToolManager.  self.tools is a dict; a Python dict keeps insertion       *)
(* order, and assigning an existing key keeps the key's position.          *)

Schema(properties, required) ==
    [type |-> "object", properties |-> properties, required |-> required]

HasTool(registry, name) == \E i \in DOMAIN registry : registry[i].name = name

ToolIndex(registry, name) == CHOOSE i \in DOMAIN registry : registry[i].name = name

ToolNames(registry) == [i \in DOMAIN registry |-> registry[i].name]

(* register_tool adding an entry without looking for the name. *)
register_tool_Appends(registry, name, func, description, parameters) ==
    Append(registry, [name |-> name, function |-> func, description |-> description,
                      parameters |-> parameters])

register_tool(registry, name, func, description, parameters) ==
    LET entry == [name |-> name, function |-> func, description |-> description,
                  parameters |-> parameters]
    IN IF HasTool(registry, name)
       THEN [registry EXCEPT ![ToolIndex(registry, name)] = entry]
       ELSE Append(registry, entry)

register_default_tools(registry) ==
    LET r1 == register_tool(registry, "analyze_document", "_analyze_document",
                  "Extract and analyze content from uploaded documents",
                  Schema({"file_path", "analysis_type"}, {"file_path", "analysis_type"}))
        r2 == register_tool(r1, "web_search", "_web_search",
                  "Search the web for information on a given topic",
                  Schema({"query", "num_results"}, {"query"}))
        r3 == register_tool(r2, "save_note", "_save_note",
                  "Save important information as a structured note",
                  Schema({"title", "content", "tags"}, {"title", "content"}))
    IN register_tool(r3, "explain_concept", "_explain_concept",
                  "Provide detailed explanation of a concept or topic",
                  Schema({"concept", "level"}, {"concept"}))

get_tool_definitions(registry) ==
    [i \in DOMAIN registry |->
        [type |-> "function",
         function |-> [name |-> registry[i].name,
                       description |-> registry[i].description,
                       parameters |-> registry[i].parameters]]]

NoHandlerRun == [raised |-> FALSE, exc |-> NoExc, value |-> None]

(* ToolManager.execute_tool.  The outcome records, besides what the call   *)
(* returns or raises (out) and the notes file it leaves, whether the name  *)
(* was found, whether a handler was called and what the handler itself     *)
(* returned or raised.                                                     *)
execute_tool(registry, name, arguments, nf, clock, behaviour) ==
    IF ~HasTool(registry, name)
    THEN [out |-> ToolResult({"success", "error"}, FALSE, None,
                             [t |-> "str", s |-> "Tool '{name}' not found", name |-> name],
                             None),
          notes_file |-> nf, found |-> FALSE, handler_called |-> FALSE,
          handler |-> NoHandlerRun]
    ELSE LET h == CallHandler(registry[ToolIndex(registry, name)].function,
                              arguments, nf, clock, behaviour)
         IN [out |-> IF h.out.raised
                     THEN ToolResult({"success", "error"}, FALSE, None,
                                     Str(h.out.exc.msg), None)
                     ELSE h.out,
             notes_file |-> h.notes_file, found |-> TRUE, handler_called |-> TRUE,
             handler |-> h.out]

----------------------------------------------------------------------------
(* ConversationManager: a record [messages, max_history, context].         *)

(* ConversationManager() emptying the history and keeping the context. *)
ConversationManager_KeepsContext(bound) ==
    [messages |-> <<>>, max_history |-> bound, context |-> context]

ConversationManager(bound) ==
    [messages |-> <<>>, max_history |-> bound, context |-> <<>>]

(* A stored message.  Its timestamp is written by add_message and read by  *)
(* nothing in the program; the model leaves the field out.                 *)
Message(role, content, metadata) ==
    [role |-> role, content |-> content, metadata |-> metadata]

_trim_history(msgs, bound) ==
    IF Len(msgs) > bound THEN LastSlice(msgs, bound) ELSE msgs

(* add_message trimming before it appends rather than after. *)
add_message_TrimsFirst(msgs, bound, role, content, metadata) ==
    Append(_trim_history(msgs, bound), Message(role, content, metadata))

add_message(msgs, bound, role, content, metadata) ==
    _trim_history(Append(msgs, Message(role, content, metadata)), bound)

get_messages_for_api(msgs) ==
    [i \in DOMAIN msgs |-> [role |-> msgs[i].role, content |-> msgs[i].content]]

HasKey(ctx, key) == \E i \in DOMAIN ctx : ctx[i].key = key

update_context(ctx, key, value) ==
    IF HasKey(ctx, key)
    THEN [i \in DOMAIN ctx |-> IF ctx[i].key = key THEN [key |-> key, value |-> value]
                                                  ELSE ctx[i]]
    ELSE Append(ctx, [key |-> key, value |-> value])

NoContextSentinel == Str("No specific context established.")

get_context_summary(ctx) ==
    IF ctx = <<>> THEN NoContextSentinel
    ELSE [t |-> "str", s |-> "Current context: {parts joined by ; }", parts |-> ctx]

----------------------------------------------------------------------------
(* ReasoningEngine.  A prompt is the template with what it embeds.  The    *)
(* Context line is embedded when the context string given is truthy, that  *)
(* is, not the empty string.                                               *)

chain_of_thought_prompt(question, ctx_text) ==
    [t |-> "str", s |-> "Let's approach this step by step.",
     question |-> question,
     context_line |-> IF ctx_text # Str("") THEN <<ctx_text>> ELSE <<>>]

react_prompt(question, available_tools) ==
    [t |-> "str", s |-> "I need to answer this question:",
     question |-> question, tools_list |-> available_tools]

SystemPrompt == Str("You are SynthesisTalk, an intelligent research assistant")

----------------------------------------------------------------------------
(* What the model client returns.  A tool call carries its correlation id, *)
(* the tool's name and the arguments as JSON text (written here without    *)
(* the quotation marks).                                                   *)

json_loads(raw) ==
    CASE raw = "{title:t,content:c}" ->
            Return(Dict({"title", "content"},
                        [ArgDefaults EXCEPT !.title = "t", !.content = "c"]))
      [] raw = "{query:q}" ->
            Return(Dict({"query"}, [ArgDefaults EXCEPT !.query = "q"]))
      [] raw = "{file_path:uploads/missing.txt,analysis_type:summary}" ->
            Return(Dict({"file_path", "analysis_type"},
                        [ArgDefaults EXCEPT !.file_path = "uploads/missing.txt",
                                            !.analysis_type = "summary"]))
      [] raw = "{file_path:uploads/notes.txt,analysis_type:key_points}" ->
            Return(Dict({"file_path", "analysis_type"},
                        [ArgDefaults EXCEPT !.file_path = "uploads/notes.txt",
                                            !.analysis_type = "key_points"]))
      [] raw = "{}" -> Return(Dict({}, ArgDefaults))
      [] raw = "null" -> Return(None)
      [] OTHER -> Raise(Exc("JSONDecodeError", "Expecting property name"))

(* The tool calls a response is built from: a call that succeeds unless    *)
(* the notes file cannot be loaded, a call whose arguments are not JSON,   *)
(* and a call of the embedding program's tool, whose name is not           *)
(* registered in an instance that holds the default tools only.            *)
ToolCallChoices ==
    { [name |-> "save_note", arguments |-> "{title:t,content:c}"],
      [name |-> "web_search", arguments |-> "{query:"],
      [name |-> "custom_tool", arguments |-> "{}"] }

(* The direct execute_tool calls: name and keyword arguments. *)
DirectCalls ==
    { [name |-> "save_note", arguments |-> "{title:t,content:c}"],
      [name |-> "save_note", arguments |-> "{}"],
      [name |-> "web_search", arguments |-> "{query:q}"],
      [name |-> "web_search", arguments |-> "null"],
      [name |-> "lookup_weather", arguments |-> "{}"],
      [name |-> "custom_tool", arguments |-> "{}"] }

CallIds == <<"call_1", "call_2", "call_3", "call_4">>

(* The tool_calls of a response: up to MaxToolCalls calls, ids by position. *)
ToolCallLists ==
    UNION { { [i \in 1..n |-> [id |-> CallIds[i], name |-> f[i].name,
                                arguments |-> f[i].arguments]]
              : f \in [1..n -> ToolCallChoices] }
            : n \in 0..MaxToolCalls }

FirstContent == Str("hi")
FinalContent == Str("done")

(* The ways a model call ends without a message: the client raises, or the *)
(* response has no choices and response.choices[0] raises.                 *)
ModelFaults ==
    { Exc("APIConnectionError", "Connection error."),
      Exc("IndexError", "list index out of range") }

UserMessages == {Str("Why is the sky blue?")}
ReasoningTypes == {None, Str("chain_of_thought"), Str("react")}

----------------------------------------------------------------------------
(* SynthesisTalkLLM.chat, in pieces.                                       *)

EmptyDict == [t |-> "dict"]

(* BuildMessages sending the stored history along with the reasoning       *)
(* prompt.                                                                 *)
BuildMessages_WithHistory(user_message, reasoning_type, ctx, msgs, registry) ==
    LET context_summary == get_context_summary(ctx)
        head == <<[role |-> "system", content |-> SystemPrompt]>>
                \o (IF context_summary # NoContextSentinel
                    THEN <<[role |-> "system", content |-> context_summary]>>
                    ELSE <<>>)
                \o get_messages_for_api(msgs)
    IN CASE reasoning_type = Str("chain_of_thought") ->
               Append(head, [role |-> "user",
                             content |-> chain_of_thought_prompt(user_message,
                                                                 context_summary)])
         [] reasoning_type = Str("react") ->
               Append(head, [role |-> "user",
                             content |-> react_prompt(user_message, ToolNames(registry))])
         [] OTHER -> head

(* Lines 399-420: the messages of the first request. *)
BuildMessages(user_message, reasoning_type, ctx, msgs, registry) ==
    LET context_summary == get_context_summary(ctx)
        head == <<[role |-> "system", content |-> SystemPrompt]>>
                \o (IF context_summary # NoContextSentinel
                    THEN <<[role |-> "system", content |-> context_summary]>>
                    ELSE <<>>)
    IN CASE reasoning_type = Str("chain_of_thought") ->
               Append(head, [role |-> "user",
                             content |-> chain_of_thought_prompt(user_message,
                                                                 context_summary)])
         [] reasoning_type = Str("react") ->
               Append(head, [role |-> "user",
                             content |-> react_prompt(user_message, ToolNames(registry))])
         [] OTHER -> head \o get_messages_for_api(msgs)

(* RequestParams attaching the tool schema whatever use_tools is. *)
RequestParams_AlwaysTools(msgs, use_tools, registry) ==
    [keys |-> {"model", "messages", "tools", "tool_choice"}, messages |-> msgs,
     tools |-> get_tool_definitions(registry), tool_choice |-> "auto"]

(* Lines 422-431: request_params. *)
RequestParams(msgs, use_tools, registry) ==
    IF use_tools
    THEN [keys |-> {"model", "messages", "tools", "tool_choice"}, messages |-> msgs,
          tools |-> get_tool_definitions(registry), tool_choice |-> "auto"]
    ELSE [keys |-> {"model", "messages"}, messages |-> msgs,
          tools |-> <<>>, tool_choice |-> ""]

(* FinalRequest sending the tool schema again, as the first request does. *)
FinalRequest_WithTools(msgs) ==
    [keys |-> {"model", "messages", "tools", "tool_choice"}, messages |-> msgs,
     tools |-> get_tool_definitions(tools), tool_choice |-> "auto"]

(* Lines 464-467: the request of the second call. *)
FinalRequest(msgs) ==
    [keys |-> {"model", "messages"}, messages |-> msgs, tools |-> <<>>, tool_choice |-> ""]

(* ToolResultEntry recording the result's data in place of the result. *)
ToolResultEntry_DataOnly(tool_name, tool_args, res) ==
    [tool |-> tool_name, args |-> tool_args, result |-> res.data]

(* Lines 448-452. *)
ToolResultEntry(tool_name, tool_args, res) ==
    [tool |-> tool_name, args |-> tool_args, result |-> res]

(* ToolMessages adding a message for a failed result too. *)
ToolMessages_Unconditional(res, tool_call) ==
    <<[role |-> "tool", content |-> PyStr(res.data), tool_call_id |-> tool_call.id]>>

(* Lines 455-460: the messages a tool result adds to the request. *)
ToolMessages(res, tool_call) ==
    IF res.success
    THEN <<[role |-> "tool", content |-> PyStr(res.data), tool_call_id |-> tool_call.id]>>
    ELSE <<>>

(* Line 463: whether the second call is made once the loop has ended. *)
NeedsFinalCall(tool_results) == tool_results # <<>>

(* ChatReturn answering without the results of the tools that ran. *)
ChatReturn_DropsResults(content, tool_results, reasoning_type, ctx) ==
    [keys |-> {"response", "tool_results", "reasoning_type", "context"},
     response |-> content, tool_results |-> <<>>,
     reasoning_type |-> reasoning_type, context |-> ctx, error |-> None]

(* Lines 477-482. *)
ChatReturn(content, tool_results, reasoning_type, ctx) ==
    [keys |-> {"response", "tool_results", "reasoning_type", "context"},
     response |-> content, tool_results |-> tool_results,
     reasoning_type |-> reasoning_type, context |-> ctx, error |-> None]

(* ChatExcept answering with a fixed text and keeping no error string. *)
ChatExcept_FixedText(e) ==
    [keys |-> {"response", "tool_results", "error"},
     response |-> Str("I encountered an error."),
     tool_results |-> <<>>,
     reasoning_type |-> None, context |-> <<>>, error |-> Str("error")]

(* Lines 484-490. *)
ChatExcept(e) ==
    [keys |-> {"response", "tool_results", "error"},
     response |-> [t |-> "str", s |-> "I encountered an error: {e}", e |-> e.msg],
     tool_results |-> <<>>,
     reasoning_type |-> None, context |-> <<>>, error |-> Str(e.msg)]

NoResult == [keys |-> {}]
NoFrame == [user_message |-> None]
NoExec == [op |-> "none", name |-> ""]
NoCaught == [where |-> "", exc |-> NoExc]
Pending == [kind |-> "pending"]
Fault(e) == [kind |-> "fault", exc |-> e]
AssistantMessage(content, tool_calls) ==
    [kind |-> "message", content |-> content, tool_calls |-> tool_calls]
NoPre == [messages |-> <<>>, context |-> <<>>, notes_file |-> NotesAbsent]

(* The processes that may run _save_note at the same time, none running. *)
Savers == {1, 2}
NoSaver == [pc |-> "none", note |-> None, loaded |-> <<>>, first |-> FALSE, out |-> NoExc]
NoSavers == [p \in Savers |-> NoSaver]

----------------------------------------------------------------------------
(* The HTTP backend (fastapi_backend.py): its module-level state.          *)

(* The session ids requests carry.  An absent session_id (None) and the    *)
(* empty string are both falsy: NoSessionId stands for either.             *)
SessionIds == {"A", "B"}
NoSessionId == ""

(* The file names requests carry, and os.path.join("uploads", filename).   *)
Filenames == {"notes.txt", "image.png", "missing.txt"}
JoinUploads(filename) ==
    CASE filename = "notes.txt" -> "uploads/notes.txt"
      [] filename = "image.png" -> "uploads/image.png"
      [] filename = "missing.txt" -> "uploads/missing.txt"

(* The files in the uploads directory when the server starts. *)
InitialUploads == {f \in Filenames : PathExists(JoinUploads(f))}

(* SynthesisTalkLLM(): the n-th instance constructed, with its new         *)
(* ConversationManager.  Its ToolManager holds the default tools.          *)
SynthesisTalkLLM(n) ==
    [id |-> n, conversation_manager |-> ConversationManager(DefaultMaxHistory)]

(* No instance: llm_instance = None, or a key absent from sessions. *)
NoInstance == [id |-> 0, conversation_manager |-> ConversationManager(DefaultMaxHistory)]
NoSessions == [s \in SessionIds |-> NoInstance]
InSessions(map, session_id) == map[session_id] # NoInstance

NoRequest ==
    [seq |-> 0, endpoint |-> "", session_id |-> NoSessionId, filename |-> "",
     status |-> 0, out |-> Return(None),
     prev |-> [endpoint |-> "", session_id |-> NoSessionId, status |-> 0]]

(* The module as imported: sessions = {} and llm_instance = None. *)
BackendLoaded ==
    /\ sessions = NoSessions
    /\ llm_instance = NoInstance
    /\ uploads = InitialUploads
    /\ next_inst = 1
    /\ last_req = NoRequest

----------------------------------------------------------------------------
(* Initial states: a newly constructed SynthesisTalkLLM, or one that has   *)
(* already served nine answered turns and one failed turn (19 stored       *)
(* messages, so that the retention bound of 20 is reached by the next      *)
(* turn); its context is empty or was set by a successful                  *)
(* analyze_document; its registry holds the default tools, with or without *)
(* a tool of the embedding program; the notes file is absent or not        *)
(* loadable.                                                               *)

PriorTurn ==
    <<Message("user", Str("earlier question"), EmptyDict),
      Message("assistant", Str("earlier answer"), [t |-> "dict", tool_calls |-> 0])>>

RECURSIVE PriorTurns(_)
PriorTurns(n) == IF n = 0 THEN <<>> ELSE PriorTurn \o PriorTurns(n - 1)

PriorHistory ==
    Append(PriorTurns(9), Message("user", Str("earlier failed question"), EmptyDict))

PriorContext ==
    update_context(update_context(<<>>, "current_document", "uploads/notes.txt"),
                   "document_analysis", "summary")

Init ==
    /\ messages \in {<<>>, PriorHistory}
    /\ max_history = DefaultMaxHistory
    /\ context \in {<<>>, PriorContext}
    /\ tools \in {register_default_tools(<<>>),
                  register_tool(register_default_tools(<<>>), "custom_tool", "custom",
                                "A tool of the embedding program", Schema({}, {}))}
    /\ notes_file \in {NotesAbsent, NotesCorrupt}
    /\ now = 0
    /\ pc = "idle"
    /\ frame = NoFrame
    /\ model_calls = <<>>
    /\ dispatched = <<>>
    /\ result = NoResult
    /\ pre = NoPre
    /\ caught = NoCaught
    /\ last_exec = NoExec
    /\ ops = 0
    /\ cm = ConversationManager(DefaultMaxHistory)
    /\ cm_appended = <<>>
    /\ savers = NoSavers
    /\ reg_log = <<>>
    /\ BackendLoaded

convVars == <<cm, cm_appended, savers, reg_log, httpVars>>
chatVars == <<pc, frame, model_calls, dispatched, result, pre, caught>>

----------------------------------------------------------------------------
(* Time.  now is the last reading of datetime.now(); a call that reads the *)
(* clock reads the same value again or a later one.                        *)

Readings == now..MaxClock

(* Whether execute_tool(name, arguments) reads the clock: only the body of *)
(* _save_note does.                                                        *)
ReadsClock(registry, name, arguments) ==
    /\ HasTool(registry, name)
    /\ registry[ToolIndex(registry, name)].function = "_save_note"
    /\ ~Bind("_save_note", arguments).raised

(* Whether the handler's behaviour is open: only a handler of the          *)
(* embedding program, once called, can behave in more than one way.        *)
IsCustom(registry, name, arguments) ==
    /\ HasTool(registry, name)
    /\ registry[ToolIndex(registry, name)].function = "custom"
    /\ arguments.t = "dict"

----------------------------------------------------------------------------
(* chat(), lines 393-434: the user message is stored, the request is built *)
(* and the first model call is made.                                       *)
ChatBegin(user_message, use_tools, reasoning_type) ==
    /\ pc = "idle"
    /\ ops < MaxOps
    /\ LET stored == add_message(messages, max_history, "user", user_message, EmptyDict)
           request_messages == BuildMessages(user_message, reasoning_type, context,
                                             stored, tools)
       IN /\ messages' = stored
          /\ model_calls' = <<[request |-> RequestParams(request_messages, use_tools, tools),
                               response |-> Pending]>>
          /\ frame' = [user_message |-> user_message, use_tools |-> use_tools,
                       reasoning_type |-> reasoning_type,
                       messages |-> request_messages,
                       assistant_message |-> None, tool_calls |-> <<>>, idx |-> 0,
                       tool_results |-> <<>>]
    /\ pre' = [messages |-> messages, context |-> context, notes_file |-> notes_file]
    /\ dispatched' = <<>>
    /\ result' = NoResult
    /\ caught' = NoCaught
    /\ pc' = "model1"
    /\ ops' = ops + 1
    /\ UNCHANGED <<max_history, context, tools, notes_file, now, last_exec, convVars>>

(* ChatFails restoring the history the call was entered with. *)
ChatFails_RollsBack(where, e) ==
    /\ caught' = [where |-> where, exc |-> e]
    /\ result' = ChatExcept(e)
    /\ pc' = "idle"
    /\ frame' = NoFrame
    /\ messages' = pre.messages

(* The except clause of chat(), lines 484-490: the call returns the error  *)
(* response.                                                               *)
ChatFails(where, e) ==
    /\ caught' = [where |-> where, exc |-> e]
    /\ result' = ChatExcept(e)
    /\ pc' = "idle"
    /\ frame' = NoFrame
    /\ UNCHANGED messages

(* Lines 470-482: the answer is stored and the call returns. *)
ChatFinishes(content, tool_calls, tool_results) ==
    /\ messages' = add_message(messages, max_history, "assistant", content,
                               [t |-> "dict", tool_calls |-> Len(tool_calls)])
    /\ result' = ChatReturn(content, tool_results, frame.reasoning_type, context)
    /\ pc' = "idle"
    /\ frame' = NoFrame
    /\ UNCHANGED caught

(* The first model call raises, or its response has no choices. *)
Model1Fails(e) ==
    /\ pc = "model1"
    /\ model_calls' = [model_calls EXCEPT ![1].response = Fault(e)]
    /\ ChatFails("model1", e)
    /\ UNCHANGED <<max_history, context, tools, notes_file, now,
                   dispatched, pre, last_exec, ops, convVars>>

(* The first response carries no tool calls: lines 436-441, 470-482. *)
Model1Answers(content) ==
    /\ pc = "model1"
    /\ model_calls' = [model_calls EXCEPT ![1].response = AssistantMessage(content, <<>>)]
    /\ ChatFinishes(content, <<>>, <<>>)
    /\ UNCHANGED <<max_history, context, tools, notes_file, now,
                   dispatched, pre, last_exec, ops, convVars>>

(* The first response carries tool calls: lines 436-442. *)
Model1CallsTools(content, tool_calls) ==
    /\ pc = "model1"
    /\ tool_calls # <<>>
    /\ frame' = [frame EXCEPT !.assistant_message = content,
                              !.tool_calls = tool_calls, !.idx = 1]
    /\ model_calls' = [model_calls EXCEPT
                          ![1].response = AssistantMessage(content, tool_calls)]
    /\ pc' = "tool_loop"
    /\ UNCHANGED <<messages, max_history, context, tools, notes_file, now,
                   dispatched, result, pre, caught, last_exec, ops, convVars>>

(* One iteration of the loop of lines 442-460: the arguments are parsed,   *)
(* the tool is executed and its result recorded.  After the last           *)
(* iteration, lines 463-467: the second model call is made.                *)
ToolStep(behaviour, clock) ==
    /\ pc = "tool_loop"
    /\ LET tool_call == frame.tool_calls[frame.idx]
           parsed == json_loads(tool_call.arguments)
       IN IF parsed.raised
          THEN /\ behaviour = "ok"
               /\ clock = now
               /\ ChatFails("json", parsed.exc)
               /\ UNCHANGED <<notes_file, now, model_calls, dispatched>>
          ELSE LET ex == execute_tool(tools, tool_call.name, parsed.value,
                                      notes_file, clock, behaviour)
                   tool_results ==
                       Append(frame.tool_results,
                              ToolResultEntry(tool_call.name, parsed.value, ex.out.value))
                   msgs == frame.messages \o ToolMessages(ex.out.value, tool_call)
                   looped == [frame EXCEPT !.tool_results = tool_results,
                                           !.messages = msgs, !.idx = frame.idx + 1]
               IN /\ behaviour # "ok" => IsCustom(tools, tool_call.name, parsed.value)
                  /\ clock # now => ReadsClock(tools, tool_call.name, parsed.value)
                  /\ notes_file' = ex.notes_file
                  /\ now' = clock
                  /\ dispatched' = Append(dispatched,
                        [id |-> tool_call.id, name |-> tool_call.name,
                         args |-> parsed.value, found |-> ex.found,
                         handler_called |-> ex.handler_called,
                         handler |-> ex.handler, out |-> ex.out])
                  /\ IF ex.out.raised
                     THEN /\ ChatFails("tool", ex.out.exc)
                          /\ UNCHANGED model_calls
                     ELSE IF frame.idx < Len(frame.tool_calls)
                     THEN /\ frame' = looped
                          /\ pc' = "tool_loop"
                          /\ UNCHANGED <<messages, result, model_calls, caught>>
                     ELSE IF NeedsFinalCall(tool_results)
                     THEN /\ frame' = looped
                          /\ model_calls' = Append(model_calls,
                                [request |-> FinalRequest(msgs), response |-> Pending])
                          /\ pc' = "model2"
                          /\ UNCHANGED <<messages, result, caught>>
                     ELSE /\ ChatFinishes(frame.assistant_message, frame.tool_calls,
                                          tool_results)
                          /\ UNCHANGED model_calls
    /\ UNCHANGED <<max_history, context, tools, pre, last_exec, ops, convVars>>

(* The second model call raises, or its response has no choices. *)
Model2Fails(e) ==
    /\ pc = "model2"
    /\ model_calls' = [model_calls EXCEPT ![2].response = Fault(e)]
    /\ ChatFails("model2", e)
    /\ UNCHANGED <<max_history, context, tools, notes_file, now,
                   dispatched, pre, last_exec, ops, convVars>>

(* The second response: lines 468-482. *)
Model2Answers(content) ==
    /\ pc = "model2"
    /\ model_calls' = [model_calls EXCEPT ![2].response = AssistantMessage(content, <<>>)]
    /\ ChatFinishes(content, frame.tool_calls, frame.tool_results)
    /\ UNCHANGED <<max_history, context, tools, notes_file, now,
                   dispatched, pre, last_exec, ops, convVars>>

----------------------------------------------------------------------------
(* The other calls on the instance, made while no chat() is running.       *)

(* analyze_document recording the document before the tool has run. *)
analyze_document_RecordsFirst(registry, ctx, file_path, analysis_type, nf, clock) ==
    LET ex == execute_tool(registry, "analyze_document",
                           Dict({"file_path", "analysis_type"},
                                [ArgDefaults EXCEPT !.file_path = file_path,
                                                    !.analysis_type = analysis_type]),
                           nf, clock, "ok")
        recorded == update_context(update_context(ctx, "current_document", file_path),
                                   "document_analysis", analysis_type)
    IN IF ex.out.raised
       THEN [ex |-> ex, ret |-> ex.out, context |-> recorded]
       ELSE LET res == ex.out.value IN
            [ex |-> ex,
             ret |-> Return([success |-> res.success,
                             content |-> IF res.success THEN res.data ELSE None,
                             error |-> res.error,
                             metadata |-> res.metadata]),
             context |-> recorded]

(* SynthesisTalkLLM.analyze_document, lines 492-509. *)
analyze_document(registry, ctx, file_path, analysis_type, nf, clock) ==
    LET ex == execute_tool(registry, "analyze_document",
                           Dict({"file_path", "analysis_type"},
                                [ArgDefaults EXCEPT !.file_path = file_path,
                                                    !.analysis_type = analysis_type]),
                           nf, clock, "ok")
    IN IF ex.out.raised
       THEN [ex |-> ex, ret |-> ex.out, context |-> ctx]
       ELSE LET res == ex.out.value IN
            [ex |-> ex,
             ret |-> Return([success |-> res.success,
                             content |-> IF res.success THEN res.data ELSE None,
                             error |-> res.error,
                             metadata |-> res.metadata]),
             context |-> IF res.success
                         THEN update_context(
                                  update_context(ctx, "current_document", file_path),
                                  "document_analysis", analysis_type)
                         ELSE ctx]

AnalyzeDocument(file_path, analysis_type) ==
    /\ pc = "idle"
    /\ ops < MaxOps
    /\ LET r == analyze_document(tools, context, file_path, analysis_type, notes_file, now)
       IN /\ context' = r.context
          /\ notes_file' = r.ex.notes_file
          /\ last_exec' = [op |-> "analyze_document", name |-> "analyze_document",
                          file_path |-> file_path, analysis_type |-> analysis_type,
                          ex |-> r.ex, ret |-> r.ret]
    /\ ops' = ops + 1
    /\ UNCHANGED <<messages, max_history, tools, now, chatVars, convVars>>

(* SynthesisTalkLLM.clear_conversation, lines 515-517. *)
ClearConversation ==
    /\ pc = "idle"
    /\ ops < MaxOps
    /\ LET fresh == ConversationManager(DefaultMaxHistory)
       IN /\ messages' = fresh.messages
          /\ max_history' = fresh.max_history
          /\ context' = fresh.context
    /\ last_exec' = [op |-> "clear_conversation", name |-> "",
                     had |-> [messages |-> messages, context |-> context]]
    /\ ops' = ops + 1
    /\ UNCHANGED <<tools, notes_file, now, chatVars, convVars>>

(* The delete-session endpoint: the session's instance is dropped, and the *)
(* next request of the session is served by a newly constructed one.       *)
DeleteSession ==
    /\ pc = "idle"
    /\ ops < MaxOps
    /\ LET fresh == ConversationManager(DefaultMaxHistory)
       IN /\ messages' = fresh.messages
          /\ max_history' = fresh.max_history
          /\ context' = fresh.context
    /\ tools' = register_default_tools(<<>>)
    /\ last_exec' = [op |-> "delete_session", name |-> ""]
    /\ ops' = ops + 1
    /\ UNCHANGED <<notes_file, now, chatVars, convVars>>

(* ToolManager.register_tool called by the embedding program. *)
RegisterTool(name) ==
    /\ pc = "idle"
    /\ ops < MaxOps
    /\ tools' = register_tool(tools, name, "custom", "A tool of the embedding program",
                              Schema({}, {}))
    /\ ops' = ops + 1
    /\ UNCHANGED <<messages, max_history, context, notes_file, now, chatVars,
                   last_exec, convVars>>

(* ToolManager.execute_tool called directly, as the save-note and search   *)
(* endpoints do.                                                           *)
ExecuteTool(name, arguments, behaviour, clock) ==
    /\ pc = "idle"
    /\ ops < MaxOps
    /\ behaviour # "ok" => IsCustom(tools, name, arguments)
    /\ clock # now => ReadsClock(tools, name, arguments)
    /\ now' = clock
    /\ LET ex == execute_tool(tools, name, arguments, notes_file, clock, behaviour)
       IN /\ notes_file' = ex.notes_file
          /\ last_exec' = [op |-> "execute_tool", name |-> name, arguments |-> arguments,
                          ex |-> ex, ret |-> ex.out]
    /\ ops' = ops + 1
    /\ UNCHANGED <<messages, max_history, context, tools, chatVars, convVars>>

Next ==
    \/ \E m \in UserMessages, u \in BOOLEAN, r \in ReasoningTypes : ChatBegin(m, u, r)
    \/ \E e \in ModelFaults : Model1Fails(e)
    \/ Model1Answers(FirstContent)
    \/ \E calls \in ToolCallLists : Model1CallsTools(FirstContent, calls)
    \/ \E b \in CustomBehaviours, t \in Readings : ToolStep(b, t)
    \/ \E e \in ModelFaults : Model2Fails(e)
    \/ Model2Answers(FinalContent)
    \/ \E f \in FilePaths, a \in {"summary", "key_points"} : AnalyzeDocument(f, a)
    \/ ClearConversation
    \/ DeleteSession
    \/ RegisterTool("custom_tool")
    \/ \E c \in DirectCalls, b \in CustomBehaviours, t \in Readings :
           ExecuteTool(c.name, json_loads(c.arguments).value, b, t)

Spec == Init /\ [][Next]_vars

----------------------------------------------------------------------------
(* A stand-alone ConversationManager given any retention bound.            *)

InitConv ==
    /\ messages = <<>>
    /\ max_history = DefaultMaxHistory
    /\ context = <<>>
    /\ tools = register_default_tools(<<>>)
    /\ notes_file = NotesAbsent
    /\ now = 0
    /\ pc = "idle"
    /\ frame = NoFrame
    /\ model_calls = <<>>
    /\ dispatched = <<>>
    /\ result = NoResult
    /\ pre = NoPre
    /\ caught = NoCaught
    /\ last_exec = NoExec
    /\ ops = 0
    /\ \E bound \in 0..MaxBound : cm = ConversationManager(bound)
    /\ cm_appended = <<>>
    /\ savers = NoSavers
    /\ reg_log = <<>>
    /\ BackendLoaded

CmAddMessage(role, content) ==
    /\ Len(cm_appended) < MaxAppends
    /\ cm' = [cm EXCEPT !.messages = add_message(cm.messages, cm.max_history, role,
                                                 content, EmptyDict)]
    /\ cm_appended' = Append(cm_appended, Message(role, content, EmptyDict))
    /\ UNCHANGED <<messages, max_history, context, tools, notes_file, now, chatVars,
                   last_exec, ops, savers, reg_log, httpVars>>

NextConv ==
    \E role \in {"user", "assistant"}, content \in {Str("a"), Str("b")} :
        CmAddMessage(role, content)

SpecConv == InitConv /\ [][NextConv]_vars

----------------------------------------------------------------------------
(* _save_note run by two processes at once on the one notes file, in the   *)
(* steps in which it touches the file.                                     *)

(* Lines 181-187. *)
BuildNote(title, content, tags, clock) ==
    [t |-> "dict", id |-> clock, title |-> title, content |-> content,
     tags |-> tags, created_at |-> clock]

(* Lines 191-195: notes = [], replaced by json.load(f) if the file exists. *)
LoadNotes(nf) ==
    CASE nf.state = "absent" -> Return(<<>>)
      [] nf.state = "ok" -> Return(nf.notes)
      [] OTHER -> Raise(Exc("JSONDecodeError", "Expecting value"))

(* WrittenNotes putting the new note first. *)
WrittenNotes_NewFirst(loaded, note) == <<note>> \o loaded

(* Line 197: notes.append(note). *)
WrittenNotes(loaded, note) == Append(loaded, note)

(* The length of the JSON text of a notes list, counted in title           *)
(* characters: the titles are the only parts that differ in length.        *)
RECURSIVE TextLength(_)
TextLength(notes) ==
    IF notes = <<>> THEN 0
    ELSE (IF Head(notes).title = "t" THEN 1 ELSE 2) + TextLength(Tail(notes))

(* Line 199: open(notes_file, 'w') leaves an empty file, which json.load   *)
(* cannot load.                                                            *)
Truncated == NotesCorrupt

(* Lines 199-200, leaving the with block: the text of notes is written     *)
(* from offset 0 over what the file holds.  A longer text written there    *)
(* by another process since the file was opened keeps its tail, and the    *)
(* file is then not valid JSON.                                            *)
FlushOver(present, notes) ==
    IF present.state = "ok" /\ TextLength(present.notes) > TextLength(notes)
    THEN NotesCorrupt
    ELSE NotesFile(notes)

EarlierNote == BuildNote("t", "c", <<>>, 0)

InitNotes ==
    /\ messages = <<>>
    /\ max_history = DefaultMaxHistory
    /\ context = <<>>
    /\ tools = register_default_tools(<<>>)
    /\ notes_file \in {NotesAbsent, NotesCorrupt, NotesFile(<<EarlierNote>>)}
    /\ now = 0
    /\ pc = "idle"
    /\ frame = NoFrame
    /\ model_calls = <<>>
    /\ dispatched = <<>>
    /\ result = NoResult
    /\ pre = NoPre
    /\ caught = NoCaught
    /\ last_exec = NoExec
    /\ ops = 0
    /\ cm = ConversationManager(DefaultMaxHistory)
    /\ cm_appended = <<>>
    /\ savers = [p \in Savers |-> [NoSaver EXCEPT !.pc = "start"]]
    /\ reg_log = <<>>
    /\ BackendLoaded

notesFrame ==
    <<messages, max_history, context, tools, chatVars, last_exec, ops, cm, cm_appended,
      reg_log, httpVars>>

(* Lines 180-195: the note is built and the notes file loaded. *)
SaverLoads(p, title, clock) ==
    /\ savers[p].pc = "start"
    /\ now' = clock
    /\ LET note == BuildNote(title, "c", <<>>, clock)
           load == LoadNotes(notes_file)
       IN savers' = [savers EXCEPT ![p] =
              IF load.raised
              THEN [pc |-> "done", note |-> note, loaded |-> <<>>, first |-> FALSE,
                    out |-> HandlerExcept(load)]
              ELSE [pc |-> "loaded", note |-> note, loaded |-> load.value,
                    first |-> \A q \in Savers : savers[q].pc \in {"start", "loaded"},
                    out |-> NoExc]]
    /\ UNCHANGED <<notes_file, notesFrame>>

(* Line 199: the file is opened for writing. *)
SaverOpens(p) ==
    /\ savers[p].pc = "loaded"
    /\ notes_file' = Truncated
    /\ savers' = [savers EXCEPT ![p].pc = "opened"]
    /\ UNCHANGED <<now, notesFrame>>

(* Lines 200-202: the notes are written and the call returns. *)
SaverCloses(p) ==
    /\ savers[p].pc = "opened"
    /\ notes_file' = FlushOver(notes_file, WrittenNotes(savers[p].loaded, savers[p].note))
    /\ savers' = [savers EXCEPT
                     ![p].pc = "done",
                     ![p].out = ToolResult({"success", "data"}, TRUE, savers[p].note,
                                           None, None)]
    /\ UNCHANGED <<now, notesFrame>>

NextNotes ==
    \/ \E p \in Savers, title \in {"t", "tt"}, clock \in Readings :
           SaverLoads(p, title, clock)
    \/ \E p \in Savers : SaverOpens(p)
    \/ \E p \in Savers : SaverCloses(p)

SpecNotes == InitNotes /\ [][NextNotes]_vars

----------------------------------------------------------------------------
(* A ToolManager on which register_tool is called any number of times.     *)

Registration(name, description, parameters) ==
    [name |-> name, description |-> description, parameters |-> parameters]

(* The registrations ToolManager.__init__ makes, lines 32-34. *)
DefaultRegistrations ==
    LET registry == register_default_tools(<<>>)
    IN [i \in DOMAIN registry |->
           Registration(registry[i].name, registry[i].description,
                        registry[i].parameters)]

InitRegistry ==
    /\ messages = <<>>
    /\ max_history = DefaultMaxHistory
    /\ context = <<>>
    /\ tools = register_default_tools(<<>>)
    /\ notes_file = NotesAbsent
    /\ now = 0
    /\ pc = "idle"
    /\ frame = NoFrame
    /\ model_calls = <<>>
    /\ dispatched = <<>>
    /\ result = NoResult
    /\ pre = NoPre
    /\ caught = NoCaught
    /\ last_exec = NoExec
    /\ ops = 0
    /\ cm = ConversationManager(DefaultMaxHistory)
    /\ cm_appended = <<>>
    /\ savers = NoSavers
    /\ reg_log = DefaultRegistrations
    /\ BackendLoaded

RegistryRegisters(name, description, parameters) ==
    /\ Len(reg_log) < Len(DefaultRegistrations) + MaxRegs
    /\ tools' = register_tool(tools, name, "custom", description, parameters)
    /\ reg_log' = Append(reg_log, Registration(name, description, parameters))
    /\ UNCHANGED <<messages, max_history, context, notes_file, now, chatVars, last_exec,
                   ops, cm, cm_appended, savers, httpVars>>

NextRegistry ==
    \E name \in {"web_search", "custom_tool", "other_tool"},
       description \in {"first description", "second description"},
       parameters \in {Schema({}, {}), Schema({"q"}, {"q"})} :
        RegistryRegisters(name, description, parameters)

SpecRegistry == InitRegistry /\ [][NextRegistry]_vars

----------------------------------------------------------------------------
(* SpecSessions: the HTTP endpoints of fastapi_backend.py.  Every endpoint *)
(* is an async function that never awaits, so requests are served one at a *)
(* time, each as one step.  The server has started: startup_event has      *)
(* constructed the shared instance.                                        *)

libVars == <<messages, max_history, context, tools, notes_file, now, chatVars,
             last_exec, ops, cm, cm_appended, savers, reg_log>>

HTTPException(status_code, detail) ==
    [type |-> "HTTPException", msg |-> detail, status_code |-> status_code]

(* except Exception as e: raise HTTPException(status_code=500,             *)
(* detail=str(e)).  HTTPException is a subclass of Exception, so the       *)
(* clause also catches the HTTPException raised inside the try block.      *)
ExceptException(out) ==
    IF out.raised
    THEN Raise(HTTPException(500, [t |-> "str", s |-> "{str(e)}", e |-> out.exc]))
    ELSE out

(* The status the client receives. *)
StatusCode(out) == IF out.raised THEN out.exc.status_code ELSE 200

get_llm(shared, n) == IF shared = NoInstance THEN SynthesisTalkLLM(n) ELSE shared

(* get_session_llm constructing an instance on every call. *)
get_session_llm_AlwaysNew(map, session_id, n) ==
    [map EXCEPT ![session_id] = SynthesisTalkLLM(n)]

get_session_llm(map, session_id, n) ==
    IF ~InSessions(map, session_id)
    THEN [map EXCEPT ![session_id] = SynthesisTalkLLM(n)]
    ELSE map

(* if session_id: llm = get_session_llm(session_id) else: llm = get_llm() *)
SelectLLM(map, shared, session_id, n) ==
    IF session_id # NoSessionId
    THEN LET m == get_session_llm(map, session_id, n)
         IN [sessions |-> m, llm_instance |-> shared, llm |-> m[session_id]]
    ELSE LET g == get_llm(shared, n)
         IN [sessions |-> map, llm_instance |-> g, llm |-> g]

(* The selected instance is an object: what a call does to its             *)
(* conversation manager is seen through the reference that holds it.       *)
Mutated(sel, session_id, cmgr) ==
    IF session_id # NoSessionId
    THEN [sessions |-> [sel.sessions EXCEPT ![session_id].conversation_manager = cmgr],
          llm_instance |-> sel.llm_instance]
    ELSE [sessions |-> sel.sessions,
          llm_instance |-> [sel.llm_instance EXCEPT !.conversation_manager = cmgr]]

(* llm.chat on an instance, from entry to return: the user message is      *)
(* stored, then either the model's answer is stored and returned or the    *)
(* except clause returns the error response.  The steps in between are     *)
(* those of Spec; here the model answers without tool calls, or fails.     *)
ChatOutcome(cmgr, user_message, response) ==
    LET stored == add_message(cmgr.messages, cmgr.max_history, "user", user_message,
                              EmptyDict)
    IN IF response.kind = "message"
       THEN [conversation_manager |->
                 [cmgr EXCEPT !.messages =
                      add_message(stored, cmgr.max_history, "assistant", response.content,
                                  [t |-> "dict", tool_calls |-> 0])],
             ret |-> ChatReturn(response.content, <<>>, None, cmgr.context)]
       ELSE [conversation_manager |-> [cmgr EXCEPT !.messages = stored],
             ret |-> ChatExcept(response.exc)]

(* ChatResponse(...), lines 124-130. *)
ChatResponse(res, session_id) ==
    [response |-> res.response, tool_results |-> res.tool_results,
     reasoning_type |-> res.reasoning_type, context |-> res.context,
     session_id |-> session_id]

(* The body of the chat endpoint's try block. *)
chat_body(map, shared, session_id, user_message, response, n) ==
    LET sel == SelectLLM(map, shared, session_id, n)
        turn == ChatOutcome(sel.llm.conversation_manager, user_message, response)
        st == Mutated(sel, session_id, turn.conversation_manager)
    IN [out |-> Return(ChatResponse(turn.ret, session_id)),
        sessions |-> st.sessions, llm_instance |-> st.llm_instance]

(* The body of upload_document's try block. *)
upload_document_body(map, shared, files, filename, session_id, n, nf, clock) ==
    LET file_path == JoinUploads(filename)
        file_extension == Lower(SplitExt(file_path))
    IN IF file_extension \notin {".pdf", ".txt"}
       THEN [out |-> Raise(HTTPException(400, Str("Unsupported file type. Allowed: .pdf, .txt"))),
             sessions |-> map, llm_instance |-> shared, uploads |-> files]
       ELSE LET sel == SelectLLM(map, shared, session_id, n)
                r == analyze_document(register_default_tools(<<>>),
                                      sel.llm.conversation_manager.context,
                                      file_path, "summary", nf, clock)
                st == Mutated(sel, session_id,
                              [sel.llm.conversation_manager EXCEPT !.context = r.context])
            IN [out |-> IF r.ret.raised THEN r.ret
                        ELSE Return([filename |-> filename, file_path |-> file_path,
                                     analysis |-> r.ret.value, session_id |-> session_id]),
                sessions |-> st.sessions, llm_instance |-> st.llm_instance,
                uploads |-> files \cup {filename}]

(* The body of the analyze-document endpoint's try block. *)
analyze_document_body(map, shared, files, filename, analysis_type, session_id, n, nf, clock) ==
    LET file_path == JoinUploads(filename)
    IN IF filename \notin files
       THEN [out |-> Raise(HTTPException(404, [t |-> "str", s |-> "File not found: {filename}",
                                               filename |-> filename])),
             sessions |-> map, llm_instance |-> shared]
       ELSE LET sel == SelectLLM(map, shared, session_id, n)
                r == analyze_document(register_default_tools(<<>>),
                                      sel.llm.conversation_manager.context,
                                      file_path, analysis_type, nf, clock)
                st == Mutated(sel, session_id,
                              [sel.llm.conversation_manager EXCEPT !.context = r.context])
            IN [out |-> r.ret, sessions |-> st.sessions, llm_instance |-> st.llm_instance]

(* The body of the search endpoint's try block. *)
web_search_body(map, shared, session_id, query, num_results, n, nf, clock) ==
    LET sel == SelectLLM(map, shared, session_id, n)
        ex == execute_tool(register_default_tools(<<>>), "web_search",
                           Dict({"query", "num_results"},
                                [ArgDefaults EXCEPT !.query = query,
                                                    !.num_results = num_results]),
                           nf, clock, "ok")
    IN [out |-> IF ex.out.raised THEN ex.out
                ELSE Return([success |-> ex.out.value.success,
                             results |-> IF ex.out.value.success THEN ex.out.value.data
                                         ELSE [t |-> "list", items |-> <<>>],
                             error |-> ex.out.value.error,
                             metadata |-> ex.out.value.metadata]),
        sessions |-> sel.sessions, llm_instance |-> sel.llm_instance]

(* The body of get_conversation_history's try block. *)
get_conversation_history(map, session_id) ==
    IF ~InSessions(map, session_id)
    THEN Return([messages |-> <<>>, context |-> <<>>])
    ELSE Return([messages |-> map[session_id].conversation_manager.messages,
                 context |-> map[session_id].conversation_manager.context])

(* The body of clear_conversation_history's try block;                     *)
(* clear_conversation replaces the instance's conversation manager.        *)
clear_conversation_history(map, session_id) ==
    [sessions |-> IF InSessions(map, session_id)
                  THEN [map EXCEPT ![session_id].conversation_manager =
                                       ConversationManager(DefaultMaxHistory)]
                  ELSE map,
     out |-> Return([message |-> "Conversation history cleared for session {session_id}",
                     session_id |-> session_id])]

(* delete_session answering an id that is not in the map as it answers a   *)
(* stored one.                                                             *)
delete_session_Idempotent(map, session_id) ==
    [sessions |-> [map EXCEPT ![session_id] = NoInstance],
     out |-> Return([message |-> "Session {session_id} deleted",
                     session_id |-> session_id])]

(* delete_session: it has no try block. *)
delete_session(map, session_id) ==
    IF InSessions(map, session_id)
    THEN [sessions |-> [map EXCEPT ![session_id] = NoInstance],
          out |-> Return([message |-> "Session {session_id} deleted",
                          session_id |-> session_id])]
    ELSE [sessions |-> map,
          out |-> Raise(HTTPException(404, [t |-> "str", s |-> "Session {session_id} not found",
                                            session_id |-> session_id]))]

(* The body of delete_file's try block. *)
delete_file_body(files, filename) ==
    IF filename \in files
    THEN [uploads |-> files \ {filename},
          out |-> Return([message |-> "File {filename} deleted", filename |-> filename])]
    ELSE [uploads |-> files,
          out |-> Raise(HTTPException(404, [t |-> "str", s |-> "File {filename} not found",
                                            filename |-> filename]))]

(* After startup_event: get_llm() has constructed the shared instance. *)
InitSessions ==
    /\ messages = <<>>
    /\ max_history = DefaultMaxHistory
    /\ context = <<>>
    /\ tools = register_default_tools(<<>>)
    /\ notes_file = NotesAbsent
    /\ now = 0
    /\ pc = "idle"
    /\ frame = NoFrame
    /\ model_calls = <<>>
    /\ dispatched = <<>>
    /\ result = NoResult
    /\ pre = NoPre
    /\ caught = NoCaught
    /\ last_exec = NoExec
    /\ ops = 0
    /\ cm = ConversationManager(DefaultMaxHistory)
    /\ cm_appended = <<>>
    /\ savers = NoSavers
    /\ reg_log = <<>>
    /\ sessions = NoSessions
    /\ llm_instance = get_llm(NoInstance, 1)
    /\ uploads = InitialUploads
    /\ next_inst = 2
    /\ last_req = NoRequest

(* One request served: the module state after it and the response sent. *)
Serve(endpoint, session_id, filename, out, map, shared, files) ==
    /\ last_req.seq < MaxRequests
    /\ sessions' = map
    /\ llm_instance' = shared
    /\ uploads' = files
    /\ next_inst' = IF shared.id = next_inst \/ \E s \in SessionIds : map[s].id = next_inst
                    THEN next_inst + 1
                    ELSE next_inst
    /\ last_req' = [seq |-> last_req.seq + 1, endpoint |-> endpoint,
                    session_id |-> session_id, filename |-> filename,
                    status |-> StatusCode(out), out |-> out,
                    prev |-> [endpoint |-> last_req.endpoint,
                              session_id |-> last_req.session_id,
                              status |-> last_req.status]]
    /\ UNCHANGED libVars

HttpChat(session_id, user_message, response) ==
    \E b \in {chat_body(sessions, llm_instance, session_id, user_message, response, next_inst)} :
        Serve("chat", session_id, "", ExceptException(b.out),
             b.sessions, b.llm_instance, uploads)

HttpUploadDocument(filename, session_id) ==
    \E b \in {upload_document_body(sessions, llm_instance, uploads, filename, session_id,
                                  next_inst, notes_file, now)} :
        Serve("upload_document", session_id, filename, ExceptException(b.out),
             b.sessions, b.llm_instance, b.uploads)

HttpAnalyzeDocument(filename, analysis_type, session_id) ==
    \E b \in {analyze_document_body(sessions, llm_instance, uploads, filename,
                                   analysis_type, session_id, next_inst, notes_file, now)} :
        Serve("analyze_document", session_id, filename, ExceptException(b.out),
             b.sessions, b.llm_instance, uploads)

HttpWebSearch(session_id) ==
    \E b \in {web_search_body(sessions, llm_instance, session_id, "tla", 5, next_inst,
                             notes_file, now)} :
        Serve("web_search", session_id, "", ExceptException(b.out),
             b.sessions, b.llm_instance, uploads)

HttpGetConversationHistory(session_id) ==
    \E out \in {get_conversation_history(sessions, session_id)} :
        Serve("get_conversation_history", session_id, "", ExceptException(out),
              sessions, llm_instance, uploads)

HttpClearConversationHistory(session_id) ==
    \E b \in {clear_conversation_history(sessions, session_id)} :
        Serve("clear_conversation_history", session_id, "", ExceptException(b.out),
             b.sessions, llm_instance, uploads)

HttpDeleteSession(session_id) ==
    \E b \in {delete_session(sessions, session_id)} :
        Serve("delete_session", session_id, "", b.out, b.sessions, llm_instance, uploads)

HttpDeleteFile(filename) ==
    \E b \in {delete_file_body(uploads, filename)} :
        Serve("delete_file", NoSessionId, filename, ExceptException(b.out),
             sessions, llm_instance, b.uploads)

NextSessions ==
    \/ \E session_id \in SessionIds \cup {NoSessionId}, user_message \in UserMessages,
          response \in {AssistantMessage(FirstContent, <<>>),
                        Fault(Exc("APIConnectionError", "Connection error."))} :
           HttpChat(session_id, user_message, response)
    \/ \E filename \in InitialUploads, session_id \in SessionIds \cup {NoSessionId} :
           HttpUploadDocument(filename, session_id)
    \/ \E filename \in Filenames, session_id \in SessionIds \cup {NoSessionId} :
           HttpAnalyzeDocument(filename, "key_points", session_id)
    \/ \E session_id \in SessionIds \cup {NoSessionId} : HttpWebSearch(session_id)
    \/ \E session_id \in SessionIds : HttpGetConversationHistory(session_id)
    \/ \E session_id \in SessionIds : HttpClearConversationHistory(session_id)
    \/ \E session_id \in SessionIds : HttpDeleteSession(session_id)
    \/ \E filename \in Filenames : HttpDeleteFile(filename)

SpecSessions == InitSessions /\ [][NextSessions]_vars


----------------------------------------------------------------------------
(* Properties of ToolManager.execute_tool and of ConversationManager.     *)

HandlerRaised(ex) == ex.handler_called /\ ex.handler.raised

ReturnsFailure(out) == ~out.raised /\ out.value.success = FALSE

NonEmptyText(x) == x.t = "str" /\ x.s # ""

(* C1: whenever the handler of a registered tool raises, for any reason    *)
(* (a wrong or missing keyword argument included), execute_tool does not   *)
(* raise: it returns a ToolResult with success false whose error is the    *)
(* text of the exception.  This holds of direct calls and of the calls     *)
(* chat dispatches.                                                        *)
C1_ExecuteToolNeverRaises ==
    /\ (last_exec.op = "execute_tool" /\ HandlerRaised(last_exec.ex)) =>
           /\ ReturnsFailure(last_exec.ret)
           /\ last_exec.ret.value.error = Str(last_exec.ex.handler.exc.msg)
    /\ \A i \in DOMAIN dispatched :
           HandlerRaised(dispatched[i]) =>
               /\ ReturnsFailure(dispatched[i].out)
               /\ dispatched[i].out.value.error = Str(dispatched[i].handler.exc.msg)

(* C2: execute_tool given a name that is not registered returns a          *)
(* ToolResult with success false and a non-empty error, and runs no        *)
(* handler.                                                                *)
C2_UnknownToolReturnsFailure ==
    (last_exec.op = "execute_tool" /\ ~last_exec.ex.found) =>
        /\ ~last_exec.ex.handler_called
        /\ ReturnsFailure(last_exec.ret)
        /\ NonEmptyText(last_exec.ret.value.error)

(* C3: after any sequence of add_message calls the stored history holds    *)
(* min(appended, max_history) messages, and they are the most recently     *)
(* appended ones in the order they were appended.                          *)
C3_RetentionBound ==
    LET kept == Min(Len(cm_appended), cm.max_history)
    IN /\ Len(cm.messages) = kept
       /\ cm.messages = SubSeq(cm_appended, Len(cm_appended) - kept + 1,
                               Len(cm_appended))

----------------------------------------------------------------------------
(* Properties of SynthesisTalkLLM.chat.                                    *)

(* The last chat() has returned. *)
ChatEnded == pc = "idle" /\ result # NoResult

IsErrorResponse(r) == "error" \in r.keys

(* The tool calls of the first response, in the order it lists them. *)
Requested ==
    IF model_calls # <<>> /\ model_calls[1].response.kind = "message"
    THEN model_calls[1].response.tool_calls
    ELSE <<>>

(* The name was not registered, the handler raised, or the handler         *)
(* returned a ToolResult with success false.                               *)
ToolLevelFailure(d) ==
    \/ ~d.found
    \/ HandlerRaised(d)
    \/ ~d.out.raised /\ ~d.out.value.success

ErrorText(e) == [t |-> "str", s |-> "I encountered an error: {e}", e |-> e.msg]

(* C4: chat never raises.  When a model call, the parsing of a tool call's *)
(* arguments or a tool dispatch raises, chat returns a mapping whose       *)
(* response text carries the error string, whose error field is that       *)
(* string and whose tool_results is the empty list, whatever tools had     *)
(* already run.                                                            *)
C4_ChatReturnsErrorResponse ==
    /\ (pc = "idle" /\ model_calls # <<>>) =>
           {"response", "tool_results"} \subseteq result.keys
    /\ (pc = "idle" /\ caught # NoCaught) =>
           /\ IsErrorResponse(result)
           /\ result.response = ErrorText(caught.exc)
           /\ result.error = Str(caught.exc.msg)
           /\ result.tool_results = <<>>

(* C4, its case: the second model call failed after a tool had run. *)
C4_Witness ==
    /\ ChatEnded
    /\ caught.where = "model2"
    /\ dispatched # <<>>
    /\ IsErrorResponse(result)

(* C5: when a tool call of the first response fails at the tool level      *)
(* (unknown name, raising handler, or a result with success false), chat   *)
(* still dispatches every requested call, records the failure in           *)
(* tool_results with success false, makes the second model call and        *)
(* returns its answer rather than an error response.                       *)
C5_ToolErrorNeverAborts ==
    ( /\ ChatEnded
      /\ caught.where \notin {"model1", "model2", "json"}
      /\ \E i \in DOMAIN dispatched : ToolLevelFailure(dispatched[i]) ) =>
        /\ ~IsErrorResponse(result)
        /\ Len(dispatched) = Len(Requested)
        /\ Len(result.tool_results) = Len(dispatched)
        /\ \A i \in DOMAIN dispatched :
               ToolLevelFailure(dispatched[i]) =>
                   result.tool_results[i].result.success = FALSE
        /\ Len(model_calls) = 2
        /\ model_calls[2].response = AssistantMessage(result.response, <<>>)

(* Entry i of tool_results as the dispatch of call i determines it. *)
EntryOf(call, d) == [tool |-> call.name, args |-> d.args, result |-> d.out.value]

(* The dispatches made so far are those of the first requested calls, in   *)
(* the order requested, with the parsed arguments; only the last of them   *)
(* can have raised.                                                        *)
DispatchedInOrder ==
    /\ Len(dispatched) <= Len(Requested)
    /\ \A i \in DOMAIN dispatched :
           /\ dispatched[i].id = Requested[i].id
           /\ dispatched[i].name = Requested[i].name
           /\ dispatched[i].args = json_loads(Requested[i].arguments).value
           /\ i < Len(dispatched) => ~dispatched[i].out.raised

(* C6, as stated: whenever the first response lists the tool calls         *)
(* c1..cn, chat dispatches all of them in that order and tool_results      *)
(* holds exactly n entries, entry i being name, parsed arguments and       *)
(* result of ci.                                                           *)
C6_AllCallsRecorded ==
    (ChatEnded /\ Requested # <<>>) =>
        /\ DispatchedInOrder
        /\ Len(dispatched) = Len(Requested)
        /\ Len(result.tool_results) = Len(Requested)
        /\ \A i \in DOMAIN Requested :
               result.tool_results[i] = EntryOf(Requested[i], dispatched[i])

(* C6, amended: the calls are dispatched one at a time in the order        *)
(* requested, and none is dispatched after one whose dispatch raised.      *)
(* When chat returns without an error response, all n calls were           *)
(* dispatched and tool_results holds exactly n entries, entry i being      *)
(* name, parsed arguments and result of ci, whether ci succeeded or not.   *)
(* When chat returns the error response, tool_results is empty.            *)
C6_CallsRecordedUnlessError ==
    /\ DispatchedInOrder
    /\ (ChatEnded /\ Requested # <<>> /\ ~IsErrorResponse(result)) =>
           /\ Len(dispatched) = Len(Requested)
           /\ Len(result.tool_results) = Len(Requested)
           /\ \A i \in DOMAIN Requested :
                  result.tool_results[i] = EntryOf(Requested[i], dispatched[i])
    /\ (ChatEnded /\ IsErrorResponse(result)) => result.tool_results = <<>>

(* C6, its case: two calls were requested, one failed and one succeeded,   *)
(* and both are recorded.                                                  *)
C6_Witness ==
    /\ ChatEnded
    /\ ~IsErrorResponse(result)
    /\ Len(Requested) = 2
    /\ Len(result.tool_results) = 2
    /\ \E i, j \in 1..2 : /\ result.tool_results[i].result.success
                          /\ ~result.tool_results[j].result.success

(* At most two model calls, and a failed one is the last one. *)
AtMostTwoCallsNoRetry ==
    /\ Len(model_calls) <= 2
    /\ \A i \in DOMAIN model_calls :
           model_calls[i].response.kind = "fault" =>
               i = Len(model_calls) /\ pc = "idle"

(* C7, as stated: at most two model calls; the second is made exactly when *)
(* at least one tool call was dispatched, carries no tool schema, and its  *)
(* content is the response text; with no tool call dispatched the content  *)
(* of the first response is the response text; a failed model call is      *)
(* never repeated.                                                         *)
C7_SecondCallIffDispatched ==
    ChatEnded =>
        /\ AtMostTwoCallsNoRetry
        /\ Len(model_calls) = 2 <=> dispatched # <<>>
        /\ Len(model_calls) = 2 =>
               /\ "tools" \notin model_calls[2].request.keys
               /\ model_calls[2].response.kind = "message" =>
                      result.response = model_calls[2].response.content
        /\ (dispatched = <<>> /\ model_calls[1].response.kind = "message") =>
               result.response = model_calls[1].response.content

(* C7, amended: at most two model calls, and a failed one is never         *)
(* repeated.  The second call is made exactly when the first response      *)
(* requested at least one tool call and every requested call was parsed    *)
(* and dispatched without an exception reaching chat; it carries the       *)
(* model and the messages only.  When chat returns without an error        *)
(* response, the response text is the content of the last model call made. *)
C7_SecondCallIffAllDispatched ==
    /\ AtMostTwoCallsNoRetry
    /\ Len(model_calls) = 2 <=>
           /\ Requested # <<>>
           /\ Len(dispatched) = Len(Requested)
           /\ \A i \in DOMAIN dispatched : ~dispatched[i].out.raised
    /\ Len(model_calls) = 2 =>
           /\ model_calls[2].request.keys = {"model", "messages"}
           /\ model_calls[2].request.tools = <<>>
    /\ (ChatEnded /\ ~IsErrorResponse(result)) =>
           /\ model_calls[Len(model_calls)].response.kind = "message"
           /\ result.response = model_calls[Len(model_calls)].response.content
           /\ Len(model_calls) = 1 => Requested = <<>>

(* C7, its case: tools ran, the second call was made and answered. *)
C7_Witness ==
    /\ ChatEnded
    /\ ~IsErrorResponse(result)
    /\ Len(model_calls) = 2
    /\ dispatched # <<>>
    /\ result.response = FinalContent

(* The tool-role messages the dispatches ds add to the request: one per    *)
(* result with success true, in dispatch order.                            *)
RECURSIVE ExpectedToolMessages(_)
ExpectedToolMessages(ds) ==
    IF ds = <<>> THEN <<>>
    ELSE LET d == Head(ds)
         IN (IF d.out.value.success
             THEN <<[role |-> "tool", content |-> PyStr(d.out.value.data),
                     tool_call_id |-> d.id]>>
             ELSE <<>>) \o ExpectedToolMessages(Tail(ds))

(* C8: the message list of the second model call is the message list of    *)
(* the first call followed by one tool-role message per successful tool    *)
(* call, in dispatch order, each with the stringified result data and the  *)
(* call's correlation id; a call whose result has success false has an     *)
(* entry in tool_results and no message.                                   *)
C8_SecondRequestMessages ==
    Len(model_calls) = 2 =>
        /\ model_calls[2].request.messages =
               model_calls[1].request.messages \o ExpectedToolMessages(dispatched)
        /\ pc = "model2" =>
               /\ Len(frame.tool_results) = Len(dispatched)
               /\ \A i \in DOMAIN dispatched :
                      frame.tool_results[i].result = dispatched[i].out.value

(* C8, its case: the second call follows a failed and a successful tool    *)
(* call.                                                                   *)
C8_Witness ==
    /\ pc = "model2"
    /\ Len(model_calls) = 2
    /\ \E i, j \in DOMAIN dispatched : /\ dispatched[i].out.value.success
                                       /\ ~dispatched[j].out.value.success

ApiForm(m) == [role |-> m.role, content |-> m.content]

ApiForms(msgs) == [i \in DOMAIN msgs |-> ApiForm(msgs[i])]

(* The step in which a chat() with no reasoning mode returns the content   *)
(* of a first response that carries no tool calls.                         *)
PlainChatReturns ==
    /\ pc = "model1"
    /\ pc' = "idle"
    /\ frame.reasoning_type = None
    /\ model_calls'[1].response.kind = "message"

(* The stored history before the call followed by the user message and     *)
(* the assistant answer.                                                   *)
HistoryPlusTurn ==
    ApiForms(pre.messages)
        \o <<[role |-> "user", content |-> frame.user_message],
             [role |-> "assistant", content |-> model_calls'[1].response.content]>>

(* C9, as stated: a chat call with no reasoning mode whose model response  *)
(* has content and no tool calls returns that content as response and an   *)
(* empty tool_results, and the stored history afterwards is the history    *)
(* before the call extended by exactly two messages, the user message and  *)
(* then the assistant answer.                                              *)
C9_HistoryGrowsByTwo ==
    [][PlainChatReturns =>
           /\ result'.response = model_calls'[1].response.content
           /\ result'.tool_results = <<>>
           /\ ApiForms(messages') = HistoryPlusTurn]_vars

(* C9, amended: such a call returns that content as response and an empty  *)
(* tool_results; the user message and then the assistant answer are        *)
(* appended to the stored history, which keeps its most recent 20          *)
(* messages: a history of at most 18 messages grows by exactly these two   *)
(* (a fresh session holds exactly 2 afterwards), a longer one loses its    *)
(* oldest messages.                                                        *)
C9_TurnAppendedWithinBound ==
    [][PlainChatReturns =>
           LET all == HistoryPlusTurn
               kept == Min(Len(all), DefaultMaxHistory)
           IN /\ result'.response = model_calls'[1].response.content
              /\ result'.tool_results = <<>>
              /\ ~IsErrorResponse(result')
              /\ ApiForms(messages') = SubSeq(all, Len(all) - kept + 1, Len(all))
              /\ Len(pre.messages) <= DefaultMaxHistory - 2 =>
                     Len(messages') = Len(pre.messages) + 2]_vars

(* C9, its case: a plain chat on a fresh session has returned. *)
C9_Witness ==
    /\ ChatEnded
    /\ ~IsErrorResponse(result)
    /\ result.reasoning_type = None
    /\ Requested = <<>>
    /\ pre.messages = <<>>
    /\ Len(messages) = 2

(* C10: with reasoning mode chain_of_thought or react the first request    *)
(* holds exactly one user-role message, the reasoning prompt built from    *)
(* the current user message, and none of the messages stored in earlier    *)
(* turns; with no reasoning mode its messages after the system messages    *)
(* are the full stored history in stored order.  In both cases the user    *)
(* message has been appended to the stored history.                        *)
C10_ReasoningRequestHasNoHistory ==
    pc # "idle" =>
        LET req == model_calls[1].request.messages
            users == SelectSeq(req, LAMBDA m : m.role = "user")
            others == SelectSeq(req, LAMBDA m : m.role # "system")
            last == messages[Len(messages)]
        IN /\ frame.reasoning_type = Str("chain_of_thought") =>
                  /\ Len(users) = 1
                  /\ users[1].content.s = "Let's approach this step by step."
                  /\ users[1].content.question = frame.user_message
           /\ frame.reasoning_type = Str("react") =>
                  /\ Len(users) = 1
                  /\ users[1].content.s = "I need to answer this question:"
                  /\ users[1].content.question = frame.user_message
           /\ frame.reasoning_type # None =>
                  /\ others = users
                  /\ \A i \in DOMAIN req, j \in DOMAIN pre.messages :
                         req[i] # ApiForm(pre.messages[j])
                  /\ \A i \in DOMAIN req : req[i].content # frame.user_message
           /\ frame.reasoning_type = None => others = ApiForms(messages)
           /\ messages # <<>>
           /\ ApiForm(last) = [role |-> "user", content |-> frame.user_message]

(* C10, its case: a react request was sent by a session that has history. *)
C10_Witness ==
    /\ pc = "model1"
    /\ frame.reasoning_type = Str("react")
    /\ pre.messages # <<>>
    /\ Len(messages) = Len(pre.messages) + 1

(* The n most recently stored of msgs. *)
MostRecent(msgs, n) ==
    LET kept == Min(Len(msgs), n) IN SubSeq(msgs, Len(msgs) - kept + 1, Len(msgs))

(* The step in which a chat() returns the error response. *)
ChatReturnsError ==
    /\ pc # "idle"
    /\ pc' = "idle"
    /\ IsErrorResponse(result')

(* C11: a failed chat call is not rolled back.  When chat returns the      *)
(* error response the stored history is the history before the call        *)
(* followed by the user message of the call, trimmed to the most recent    *)
(* 20: it ends with that user message, the call has appended no assistant  *)
(* message, and the context map is as it was before the call.             *)
C11_FailedChatKeepsUserMessage ==
    [][ChatReturnsError =>
           /\ ApiForms(messages') =
                  MostRecent(Append(ApiForms(pre.messages),
                                    [role |-> "user", content |-> frame.user_message]),
                             DefaultMaxHistory)
           /\ messages'[Len(messages')].metadata = EmptyDict
           /\ context' = pre.context]_vars

(* C11, its case: a chat failed after a tool had run, in a session that    *)
(* had history and context.                                                *)
C11_Witness ==
    /\ ChatEnded
    /\ IsErrorResponse(result)
    /\ dispatched # <<>>
    /\ pre.messages # <<>>
    /\ pre.context # <<>>
    /\ Len(messages) = DefaultMaxHistory
    /\ messages[Len(messages)].role = "user"

----------------------------------------------------------------------------
(* Properties of the document and note tools.                              *)

(* C12: file and storage errors are returned, never raised.                *)
(* analyze_document on a path that does not exist, or whose extension is   *)
(* neither .pdf nor .txt, returns success false, content None and a        *)
(* non-empty error; save_note with a notes file that cannot be loaded      *)
(* returns a ToolResult with success false and an error.                   *)
C12_StorageErrorsReturned ==
    /\ ( /\ last_exec.op = "analyze_document"
         /\ \/ ~PathExists(last_exec.file_path)
            \/ Lower(SplitExt(last_exec.file_path)) \notin {".pdf", ".txt"} ) =>
           /\ ~last_exec.ret.raised
           /\ last_exec.ret.value.success = FALSE
           /\ last_exec.ret.value.content = None
           /\ NonEmptyText(last_exec.ret.value.error)
    /\ ( /\ last_exec.op = "execute_tool"
         /\ last_exec.name = "save_note"
         /\ last_exec.arguments.t = "dict"
         /\ {"title", "content"} \subseteq last_exec.arguments.keys
         /\ last_exec.ex.notes_file.state = "corrupt" ) =>
           /\ ReturnsFailure(last_exec.ret)
           /\ NonEmptyText(last_exec.ret.value.error)

(* The step in which a save_note succeeds: the only step that writes the   *)
(* notes file.                                                             *)
SaveNoteSucceeds == notes_file' # notes_file

(* The keyword arguments of the save_note of this step. *)
SavedArguments ==
    IF dispatched' # dispatched
    THEN dispatched'[Len(dispatched')].args
    ELSE last_exec'.arguments

(* C13: a successful save_note(title, content, tags) followed by           *)
(* export_research_notes gives the list exported before the save plus      *)
(* exactly one entry at its end, whose title, content and tags are the     *)
(* inputs (tags the empty list when none is given) and whose id differs    *)
(* from the id of every note persisted before, one saved immediately       *)
(* before included.                                                        *)
C13_SaveThenExport ==
    [][SaveNoteSucceeds =>
           LET before == export_research_notes(notes_file)
               after == export_research_notes(notes_file')
               new == after[Len(after)]
           IN /\ Len(after) = Len(before) + 1
              /\ SubSeq(after, 1, Len(before)) = before
              /\ new.title = SavedArguments.kv.title
              /\ new.content = SavedArguments.kv.content
              /\ new.tags = (IF "tags" \in SavedArguments.keys
                             THEN SavedArguments.kv.tags ELSE <<>>)
              /\ \A i \in DOMAIN before : before[i].id # new.id]_vars

IsPrefix(a, b) == Len(a) <= Len(b) /\ SubSeq(b, 1, Len(a)) = a

Performs(op) == last_exec' # last_exec /\ last_exec'.op = op

(* C16: clear_conversation leaves the conversation as a newly constructed  *)
(* one: the history is empty, the context map is empty and the retention   *)
(* bound is the default 20, whatever came before; the tool registry and    *)
(* the persisted notes are unchanged.                                      *)
C16_ClearResetsConversation ==
    [][Performs("clear_conversation") =>
           /\ messages' = <<>>
           /\ context' = <<>>
           /\ max_history' = DefaultMaxHistory
           /\ tools' = tools
           /\ notes_file' = notes_file]_vars

(* C16, its case: a session with history, context and a tool of the        *)
(* embedding program was cleared.                                          *)
C16_Witness ==
    /\ last_exec.op = "clear_conversation"
    /\ last_exec.had.messages # <<>>
    /\ last_exec.had.context # <<>>
    /\ HasTool(tools, "custom_tool")
    /\ messages = <<>>

(* Both concurrent save_note calls have returned, and each had loaded the  *)
(* notes file before either opened it for writing.                         *)
BothLoadedFirst ==
    \A p \in Savers : savers[p].pc = "done" /\ savers[p].first

BothReportSuccess ==
    \A p \in Savers : ~savers[p].out.raised /\ savers[p].out.value.success

(* The notes file holds what was loaded and the note of exactly one of the *)
(* two calls.                                                              *)
HoldsOneNewNote ==
    /\ notes_file.state = "ok"
    /\ \E p \in Savers : notes_file.notes = Append(savers[p].loaded, savers[p].note)

----------------------------------------------------------------------------
(* Properties of the tool registry and of the requests chat builds.        *)

FirstRegistration(name) ==
    CHOOSE k \in DOMAIN reg_log :
        /\ reg_log[k].name = name
        /\ \A j \in 1..(k - 1) : reg_log[j].name # name

LastRegistration(name) ==
    CHOOSE k \in DOMAIN reg_log :
        /\ reg_log[k].name = name
        /\ \A j \in (k + 1)..Len(reg_log) : reg_log[j].name # name

(* C18: after any sequence of register_tool calls, get_tool_definitions    *)
(* gives exactly one definition per distinct registered name, with the     *)
(* description and parameters of the most recent registration of that      *)
(* name, the names in the order in which they were first registered.       *)
C18_OneDefinitionPerName ==
    LET defs == get_tool_definitions(tools)
        name(i) == defs[i].function.name
    IN /\ {name(i) : i \in DOMAIN defs} = {reg_log[k].name : k \in DOMAIN reg_log}
       /\ \A i, j \in DOMAIN defs : i # j => name(i) # name(j)
       /\ \A i \in DOMAIN defs :
              LET last == reg_log[LastRegistration(name(i))]
              IN /\ defs[i].type = "function"
                 /\ defs[i].function.description = last.description
                 /\ defs[i].function.parameters = last.parameters
       /\ \A i, j \in DOMAIN defs :
              i < j => FirstRegistration(name(i)) < FirstRegistration(name(j))

(* C18, its case: a default tool was registered again with another         *)
(* description, and a new name after it.                                   *)
C18_Witness ==
    /\ Len(reg_log) = Len(DefaultRegistrations) + 2
    /\ reg_log[5].name = "web_search"
    /\ reg_log[5].description = "second description"
    /\ reg_log[6].name = "other_tool"
    /\ Len(tools) = 5

Keys(ctx) == {ctx[i].key : i \in DOMAIN ctx}

ValueOf(ctx, key) == ctx[CHOOSE i \in DOMAIN ctx : ctx[i].key = key].value

AnalysisSucceeded(exec) == ~exec.ret.raised /\ exec.ret.value.success

(* C17: SynthesisTalkLLM.analyze_document changes the context only on      *)
(* success.  When the tool succeeds, the keys current_document and         *)
(* document_analysis hold the file path and the analysis type given and    *)
(* every other key is as before; when it fails the context map is          *)
(* unchanged.  The message history is untouched in both cases.             *)
C17_ContextSetOnSuccessOnly ==
    [][Performs("analyze_document") =>
           /\ messages' = messages
           /\ AnalysisSucceeded(last_exec') =>
                  /\ Keys(context') =
                         Keys(context) \cup {"current_document", "document_analysis"}
                  /\ Len(context') = Cardinality(Keys(context'))
                  /\ ValueOf(context', "current_document") = last_exec'.file_path
                  /\ ValueOf(context', "document_analysis") = last_exec'.analysis_type
                  /\ \A k \in Keys(context) \ {"current_document", "document_analysis"} :
                         ValueOf(context', k) = ValueOf(context, k)
           /\ ~AnalysisSucceeded(last_exec') => context' = context]_vars

(* C17, its case: the analysis of a document succeeded in a session that  *)
(* has history.                                                            *)
C17_Witness ==
    /\ last_exec.op = "analyze_document"
    /\ AnalysisSucceeded(last_exec)
    /\ last_exec.file_path = "uploads/PAPER.PDF"
    /\ last_exec.analysis_type = "key_points"
    /\ context = <<[key |-> "current_document", value |-> "uploads/PAPER.PDF"],
                   [key |-> "document_analysis", value |-> "key_points"]>>
    /\ messages # <<>>

(* C19: the first request chat builds starts with the fixed system prompt  *)
(* as its first message; a second system message, holding the context      *)
(* summary, follows it exactly when the context map is not empty; the      *)
(* tool schema with automatic tool choice is attached exactly when         *)
(* use_tools is true.                                                      *)
C19_FirstRequestShape ==
    pc # "idle" =>
        LET req == model_calls[1].request
            systems == SelectSeq(req.messages, LAMBDA m : m.role = "system")
        IN /\ req.messages[1] = [role |-> "system", content |-> SystemPrompt]
           /\ Len(systems) = (IF context # <<>> THEN 2 ELSE 1)
           /\ SubSeq(req.messages, 1, Len(systems)) = systems
           /\ context # <<>> =>
                  /\ req.messages[2].content.s = "Current context: {parts joined by ; }"
                  /\ req.messages[2].content.parts = context
           /\ frame.use_tools <=> "tools" \in req.keys
           /\ frame.use_tools <=> "tool_choice" \in req.keys
           /\ frame.use_tools =>
                  /\ req.tools = get_tool_definitions(tools)
                  /\ req.tool_choice = "auto"
           /\ {"model", "messages"} \subseteq req.keys

(* C19, its case: a request without tools was built in a session that has  *)
(* context.                                                                *)
C19_Witness ==
    /\ pc = "model1"
    /\ context # <<>>
    /\ ~frame.use_tools
    /\ Len(model_calls[1].request.messages) > 2

(* C20: in chain_of_thought mode the prompt chat sends as the user turn    *)
(* holds a Context line exactly when the context map of the session is     *)
(* not empty.                                                              *)
C20_ContextLineIffContext ==
    (pc # "idle" /\ frame.reasoning_type = Str("chain_of_thought")) =>
        LET users == SelectSeq(model_calls[1].request.messages,
                               LAMBDA m : m.role = "user")
        IN /\ Len(users) = 1
           /\ users[1].content.context_line # <<>> <=> context # <<>>

ChatReturns == pc # "idle" /\ pc' = "idle"

NoHandlerExecuted(ds) == \A i \in DOMAIN ds : ~ds[i].handler_called

(* C21, as stated: whenever chat returns a result whose tool_results list  *)
(* is empty, no tool handler was executed during the call and the call     *)
(* has added no note to the notes file.                                    *)
C21_EmptyResultsNoHandler ==
    [][(ChatReturns /\ result'.tool_results = <<>>) =>
           /\ NoHandlerExecuted(dispatched')
           /\ notes_file' = pre.notes_file]_vars

(* C21, amended: whenever chat returns a result that has no error field    *)
(* and whose tool_results list is empty, no tool call was dispatched       *)
(* during the call, so no handler was executed and the notes file is as    *)
(* it was when the call began.  An error response has an empty             *)
(* tool_results list whatever handlers ran before the failure.             *)
C21_EmptyResultsNoHandlerUnlessError ==
    [][(ChatReturns /\ ~IsErrorResponse(result') /\ result'.tool_results = <<>>) =>
           /\ dispatched' = <<>>
           /\ NoHandlerExecuted(dispatched')
           /\ notes_file' = pre.notes_file]_vars

(* C21, its case: chat has returned an answer without an error field and   *)
(* with no tool results, to a request that offered the tools.              *)
C21_Witness ==
    /\ ChatEnded
    /\ ~IsErrorResponse(result)
    /\ result.tool_results = <<>>
    /\ "tools" \in model_calls[1].request.keys
    /\ dispatched = <<>>

(* C21, the case the statement misses: chat has returned the error         *)
(* response, with no tool results, after save_note had written a note.     *)
C21_NoteWrittenThenError ==
    ~( /\ ChatEnded
       /\ IsErrorResponse(result)
       /\ caught.where = "model2"
       /\ \E i \in DOMAIN dispatched :
              /\ dispatched[i].name = "save_note"
              /\ ~dispatched[i].out.raised
              /\ dispatched[i].out.value.success
       /\ notes_file # pre.notes_file )

----------------------------------------------------------------------------
(* Properties of the HTTP backend.                                         *)

(* A step that serves a request of one of the given endpoints. *)
Serves(endpoints) == last_req'.seq # last_req.seq /\ last_req'.endpoint \in endpoints

ConversationOf(inst) == inst.conversation_manager

(* C22: sessions are isolated.  A chat, upload, analyze, search or clear   *)
(* request carrying session id A leaves the instance stored under every    *)
(* other session id, and the shared instance, as they were: neither their  *)
(* message history nor their context changes.  Only a delete-session       *)
(* request for an id removes it from the map; until then the id maps to    *)
(* the instance constructed for it, and a chat of the session extends the  *)
(* history its earlier requests left.                                      *)
C22_SessionsIsolated ==
    [][ /\ Serves({"chat", "upload_document", "analyze_document", "web_search",
                   "clear_conversation_history"}) =>
            /\ \A B \in SessionIds :
                   B # last_req'.session_id => sessions'[B] = sessions[B]
            /\ last_req'.session_id # NoSessionId => llm_instance' = llm_instance
            /\ last_req'.session_id = NoSessionId => llm_instance'.id = llm_instance.id
        /\ \A s \in SessionIds :
               InSessions(sessions, s) =>
                   \/ sessions'[s].id = sessions[s].id
                   \/ /\ Serves({"delete_session"})
                      /\ last_req'.session_id = s
                      /\ ~InSessions(sessions', s)
        /\ \A s \in SessionIds :
               (Serves({"chat"}) /\ last_req'.session_id = s /\ InSessions(sessions, s)) =>
                   /\ IsPrefix(ConversationOf(sessions[s]).messages,
                               ConversationOf(sessions'[s]).messages)
                   /\ Len(ConversationOf(sessions'[s]).messages) >
                          Len(ConversationOf(sessions[s]).messages)
                   /\ ConversationOf(sessions'[s]).context =
                          ConversationOf(sessions[s]).context
      ]_vars

(* C22, its case: session A has chatted twice and holds both turns, while  *)
(* session B, served in between by another instance, holds its own turn.   *)
C22_Witness ==
    /\ last_req.endpoint = "chat"
    /\ last_req.session_id = "A"
    /\ Len(ConversationOf(sessions["A"]).messages) = 4
    /\ InSessions(sessions, "B")
    /\ Len(ConversationOf(sessions["B"]).messages) = 2
    /\ sessions["A"].id # sessions["B"].id
    /\ ConversationOf(llm_instance).messages = <<>>

(* C23: reading or clearing the conversation history of a session id that  *)
(* is not in the session map, and deleting such an id, leave the map as it *)
(* was, so no session is created: the read returns empty messages and an   *)
(* empty context, the clear reports success, the delete is answered with   *)
(* 404.  A chat with an id that is not in the map, in particular the first *)
(* chat after the session was deleted, is served by a newly constructed    *)
(* instance: afterwards the history holds only that chat's messages, and   *)
(* the context is empty.                                                   *)
C23_UnknownSessionNotCreated ==
    [][ /\ ( /\ Serves({"get_conversation_history", "clear_conversation_history",
                        "delete_session"})
             /\ ~InSessions(sessions, last_req'.session_id) ) =>
               /\ sessions' = sessions
               /\ llm_instance' = llm_instance
               /\ last_req'.endpoint = "get_conversation_history" =>
                      /\ last_req'.status = 200
                      /\ last_req'.out.value = [messages |-> <<>>, context |-> <<>>]
               /\ last_req'.endpoint = "clear_conversation_history" =>
                      /\ last_req'.status = 200
                      /\ ~last_req'.out.raised
               /\ last_req'.endpoint = "delete_session" =>
                      /\ last_req'.status = 404
                      /\ last_req'.out.raised
        /\ ( /\ Serves({"delete_session"})
             /\ InSessions(sessions, last_req'.session_id) ) =>
               /\ last_req'.status = 200
               /\ ~InSessions(sessions', last_req'.session_id)
        /\ ( /\ Serves({"chat"})
             /\ last_req'.session_id # NoSessionId
             /\ \/ ~InSessions(sessions, last_req'.session_id)
                \/ /\ last_req.endpoint = "delete_session"
                   /\ last_req.status = 200
                   /\ last_req.session_id = last_req'.session_id ) =>
               LET inst == sessions'[last_req'.session_id] IN
               /\ inst.id = next_inst
               /\ \A s \in SessionIds : sessions[s].id # inst.id
               /\ llm_instance.id # inst.id
               /\ Len(ConversationOf(inst).messages) \in {1, 2}
               /\ ConversationOf(inst).messages[1].role = "user"
               /\ \A i \in DOMAIN ConversationOf(inst).messages :
                      i > 1 => ConversationOf(inst).messages[i].role = "assistant"
               /\ ConversationOf(inst).context = <<>>
               /\ last_req'.out.value.context = <<>>
      ]_vars

(* C23, its case: session A was created by the first request, was deleted  *)
(* by the second, and has chatted again in the third.                      *)
C23_Witness ==
    /\ last_req.seq = 3
    /\ last_req.endpoint = "chat"
    /\ last_req.session_id = "A"
    /\ last_req.prev.endpoint = "delete_session"
    /\ last_req.prev.session_id = "A"
    /\ last_req.prev.status = 200
    /\ sessions["A"].id = 3
    /\ Len(ConversationOf(sessions["A"]).messages) = 2

(* C23, the other case: a delete of an id that is not in the map has been  *)
(* answered.                                                               *)
C23_UnknownDeleteAnswered ==
    ~( /\ last_req.endpoint = "delete_session"
       /\ last_req.status = 404
       /\ sessions = NoSessions )

UnsupportedExtension(filename) ==
    Lower(SplitExt(JoinUploads(filename))) \notin {".pdf", ".txt"}

(* C24: an error status chosen inside an endpoint body is the status the   *)
(* client receives.  An upload whose file extension is neither .pdf nor    *)
(* .txt is answered with 400, writes no file and creates no session;       *)
(* analyze-document and delete-file for a file that is not under uploads   *)
(* are answered with 404.                                                  *)
C24_ChosenStatusReachesClient ==
    [][ /\ ( Serves({"upload_document"}) /\ UnsupportedExtension(last_req'.filename) ) =>
               /\ last_req'.status = 400
               /\ uploads' = uploads
               /\ sessions' = sessions
        /\ ( /\ Serves({"analyze_document", "delete_file"})
             /\ last_req'.filename \notin uploads ) =>
               last_req'.status = 404
      ]_vars

(* What holds of C24's cases: the client receives 500 for each of them,    *)
(* and in the upload case no file is written and no session is created.    *)
C24_ChosenStatusReplacedBy500 ==
    [][ /\ ( Serves({"upload_document"}) /\ UnsupportedExtension(last_req'.filename) ) =>
               /\ last_req'.status = 500
               /\ last_req'.out.exc.msg.e.status_code = 400
               /\ uploads' = uploads
               /\ sessions' = sessions
        /\ ( /\ Serves({"analyze_document", "delete_file"})
             /\ last_req'.filename \notin uploads ) =>
               /\ last_req'.status = 500
               /\ last_req'.out.exc.msg.e.status_code = 404
      ]_vars

====
